---- MODULE Spec2Model ----
(***************************************************************************)
(* Verification model of the rack-manager firmware runtime:                *)
(*   - executor   (code/executor/src/lib.rs, waking.rs)                    *)
(*   - timer wheel (code/utils/src/timer.rs)                               *)
(*   - block allocator (code/utils/src/allocator.rs)                       *)
(*   - unbounded mpsc queue (code/utils/src/queue.rs)                      *)
(*   - packet codec, extension role and controller role                    *)
(*     (code/protocol/src)                                                 *)
(*   - DMA serial transmitter and logging sink (code/utils/src/stm32l432)  *)
(* Each component has its own specification (SpecExec, SpecWheel, ...);    *)
(* the variables of the other components stay at their initial value.      *)
(***************************************************************************)
EXTENDS Integers, Sequences, FiniteSets, TLC

Min(a, b) ==
    IF a <= b THEN a ELSE b

(***************************************************************************)
(*                               STATE                                     *)
(***************************************************************************)

\* Executor: Runtime<'f, T, L> (lib.rs:39-48) and its InternalWakers.
VARIABLES
    ready,          \* wakers[i].ready, the wake-bit of slot i
    done,           \* metadata[i].done
    run_pc,         \* position of Runtime::run
    id,             \* loop index of the for loop in Runtime::run
    polls,          \* history: number of polls of task i that have begun
    wakes,          \* history: number of waker invocations on task i
    returnedReady,  \* history: a poll of task i returned Poll::Ready
    owed,           \* history: task i was woken while not done, no poll of i began since
    seen,           \* history: seen[i][u] polls of u begun while a wake of i is owed
    wokenSinceClear,\* history: task i's waker ran after the last set_ready(false) on i
    pass            \* history: 1 during the first pass of the outer loop, 2 afterwards

execVars ==
    <<ready, done, run_pc, id, polls, wakes, returnedReady, owed, seen,
      wokenSinceClear, pass>>

\* Timer wheel: TimerWheel<LevelOneWheel, SCALE> (timer.rs:154-175) and its
\* callers.
VARIABLES
    current,      \* LevelOneWheel::current, kept modulo the width (2^32 % 32 = 0)
    wheel_slots,  \* LevelOneWheel::slots: bucket -> slot index, or -1
    wakers,       \* SlotStorage::wakers: slot -> [state, waker, fired]
    used_slots,   \* SlotStorage::used_slots
    scale,        \* N of ScaleGeneral<N>, the SCALE of this TimerWheel
    wheel_pc,     \* "run", or "panicked" once tick has panicked
    cl,           \* the callers: cl[k] is a TimerHandle or a SleepMs future
    sched         \* history: polls and ticks alternated so far, poll first

timerVars ==
    <<current, wheel_slots, wakers, used_slots, scale, wheel_pc, cl, sched>>

\* Block allocator: LinkedListAllocator<N> (allocator.rs:5-9), the memory
\* between start and end, and the threads that call it.
VARIABLES
    head,   \* LinkedListAllocator::head: a block, or 0 for null
    link,   \* the first word of each block, where the free list keeps its pointer
    th      \* the callers: th[t] = [pc, ptr, follow, owned]

allocVars ==
    <<head, link, th>>

\* Unbounded mpsc queue: Buffer<T, 4>, Tx and Rx (queue.rs:34-68) and the
\* threads that use them.
VARIABLES
    buffers,    \* the segments: [entries, pos, ref_count, next, status]
    tx,         \* Tx: [tail, held, limit]
    prods,      \* producer threads sharing the Tx, with the locals of try_enqueue
    rx,         \* Rx: [head, pos] with the locals of try_dequeue and drop
    delivered   \* history: the items try_dequeue has returned, in order

queueVars ==
    <<buffers, tx, prods, rx, delivered>>

\* Extension board: Extension<R, Sel, Ser> (extension.rs:6-12) with its
\* pins, its serial port and the callbacks given to run.
VARIABLES
    ext,    \* [pc, ready_pin, id, packet, selected, byte, reply, config_options]
    wire,   \* the serial port since the last frame was read:
            \* [out, okAt, flushes, sent, wr]
    calls   \* history: [configure, metrics, ignored, readUnready, err]

protoVars ==
    <<ext, wire, calls>>

\* Controller board: Controller::init (controller.rs:50-105) with the
\* ReadyCheck, the Select and the serial port it is given.
VARIABLES
    ctrl    \* [pc, n, ready, idx, byte, extensions] and the history of the
            \* calls: [selects, out, okAt, wr]

ctrlVars ==
    <<ctrl>>

\* DMA serial transmitter: SerialTx, TxFuture and SerialNotifier
\* (serial.rs:64-68, 275-286, 363-383), and the logging sink on top of it.
VARIABLES
    stx,    \* [tx_buffer, fut, data, dma, complete, waker] and the history
            \* of the last future: [starts, last, selfWake]
    log     \* run_backend: [pc, queue] and the history [enqueued, taken, sent]

serVars ==
    <<stx, log>>

\* The codec on its own: a packet, the frame made of it, what decoding a
\* frame gave.
VARIABLES
    codec   \* [pc, packet, frame, result]

\* What each component's actions leave alone.
execOthers ==
    <<timerVars, allocVars, queueVars, protoVars, ctrlVars, serVars, codec>>

timerOthers ==
    <<execVars, allocVars, queueVars, protoVars, ctrlVars, serVars, codec>>

allocOthers ==
    <<execVars, timerVars, queueVars, protoVars, ctrlVars, serVars, codec>>

queueOthers ==
    <<execVars, timerVars, allocVars, protoVars, ctrlVars, serVars, codec>>

protoOthers ==
    <<execVars, timerVars, allocVars, queueVars, ctrlVars, serVars, codec>>

ctrlOthers ==
    <<execVars, timerVars, allocVars, queueVars, protoVars, serVars, codec>>

serOthers ==
    <<execVars, timerVars, allocVars, queueVars, protoVars, ctrlVars, codec>>

codecOthers ==
    <<execVars, timerVars, allocVars, queueVars, protoVars, ctrlVars, serVars>>

vars ==
    <<execVars, timerVars, allocVars, queueVars, protoVars, ctrlVars, serVars,
      codec>>

(***************************************************************************)
(*                              EXECUTOR                                   *)
(***************************************************************************)

\* L, the number of task slots of Runtime<'f, T, L>.
NumTasks ==
    2

\* Number of waker invocations (from tasks or interrupts) in one behaviour.
MaxWakes ==
    3

Tasks ==
    0 .. (NumTasks - 1)

\* polls[] saturates here; one more than any value the executor can reach.
PollCap ==
    MaxWakes + 2

\* InternalWaker::set_ready
set_ready(bits, t, val) ==
    [bits EXCEPT ![t] = val]

\* InternalWaker::is_ready
is_ready(t) ==
    ready[t]

\* Runtime::new: every wake-bit TRUE, every done flag FALSE.
ExecInit ==
    /\ ready = [t \in Tasks |-> TRUE]
    /\ done = [t \in Tasks |-> FALSE]
    /\ run_pc = "check"
    /\ id = 0
    /\ polls = [t \in Tasks |-> 0]
    /\ wakes = [t \in Tasks |-> 0]
    /\ returnedReady = [t \in Tasks |-> FALSE]
    /\ owed = [t \in Tasks |-> FALSE]
    /\ seen = [t \in Tasks |-> [u \in Tasks |-> 0]]
    /\ wokenSinceClear = [t \in Tasks |-> FALSE]
    /\ pass = 1

\* Variant: the done flag is not consulted.
ShouldSkip_IgnoresDone(t) ==
    ~is_ready(t)

\* Variant: the wake-bit is not consulted.
ShouldSkip_IgnoresReady(t) ==
    done[t]

\* lib.rs:76  if !iwaker.is_ready() || entry.done { continue; }
ShouldSkip(t) ==
    ~is_ready(t) \/ done[t]

\* Advance the for loop; after the last slot comes the assertion.
NextSlot ==
    IF id + 1 < NumTasks
    THEN /\ id' = id + 1
         /\ run_pc' = "check"
    ELSE /\ id' = NumTasks
         /\ run_pc' = "assert"

\* lib.rs:73-78: the loop reaches slot id and decides whether to poll it.
RunCheck ==
    /\ run_pc = "check"
    /\ IF ShouldSkip(id)
       THEN NextSlot
       ELSE /\ run_pc' = "clear"
            /\ id' = id
    /\ UNCHANGED <<ready, done, polls, wakes, returnedReady, owed, seen,
                   wokenSinceClear, pass>>
    /\ UNCHANGED execOthers

\* lib.rs:79  iwaker.set_ready(false);
RunClear ==
    /\ run_pc = "clear"
    /\ ready' = set_ready(ready, id, FALSE)
    /\ run_pc' = "call"
    /\ wokenSinceClear' = [wokenSinceClear EXCEPT ![id] = FALSE]
    /\ UNCHANGED <<done, id, polls, wakes, returnedReady, owed, seen, pass>>
    /\ UNCHANGED execOthers

\* lib.rs:81-87: the waker is created and the task's poll is entered.
RunPollBegin ==
    /\ run_pc = "call"
    /\ run_pc' = "polling"
    /\ polls' = [polls EXCEPT ![id] = Min(@ + 1, PollCap)]
    /\ owed' = [owed EXCEPT ![id] = FALSE]
    /\ seen' = [t \in Tasks |->
                  IF t = id THEN [u \in Tasks |-> 0]
                  ELSE IF owed[t] THEN [seen[t] EXCEPT ![id] = Min(@ + 1, 2)]
                  ELSE seen[t]]
    /\ UNCHANGED <<ready, done, id, wakes, returnedReady, wokenSinceClear, pass>>
    /\ UNCHANGED execOthers

\* Variant: the wake-bit is cleared when the poll returns, not before it.
RunPollReturn_ClearsLate(isReady) ==
    /\ run_pc = "polling"
    /\ ready' = set_ready(ready, id, FALSE)
    /\ done' = [done EXCEPT ![id] = @ \/ isReady]
    /\ returnedReady' = [returnedReady EXCEPT ![id] = @ \/ isReady]
    /\ NextSlot
    /\ UNCHANGED <<polls, wakes, owed, seen, wokenSinceClear, pass>>
    /\ UNCHANGED execOthers

\* lib.rs:87-92: the poll returns Pending (isReady = FALSE) or Ready.
RunPollReturn(isReady) ==
    /\ run_pc = "polling"
    /\ done' = [done EXCEPT ![id] = @ \/ isReady]
    /\ returnedReady' = [returnedReady EXCEPT ![id] = @ \/ isReady]
    /\ NextSlot
    /\ UNCHANGED <<ready, polls, wakes, owed, seen, wokenSinceClear, pass>>
    /\ UNCHANGED execOthers

\* Variant: the assertion asks that every task is not done.
RunAssert_AllRunning ==
    /\ run_pc = "assert"
    /\ IF \A t \in Tasks : ~done[t]
       THEN /\ run_pc' = "check"
            /\ id' = 0
       ELSE /\ run_pc' = "panicked"
            /\ id' = id
    /\ pass' = 2
    /\ UNCHANGED <<ready, done, polls, wakes, returnedReady, owed, seen,
                   wokenSinceClear>>
    /\ UNCHANGED execOthers

\* lib.rs:95  assert!(self.metadata.iter().any(|m| !m.done), "Should run forever");
RunAssert ==
    /\ run_pc = "assert"
    /\ IF \E t \in Tasks : ~done[t]
       THEN /\ run_pc' = "check"
            /\ id' = 0
       ELSE /\ run_pc' = "panicked"
            /\ id' = id
    /\ pass' = 2
    /\ UNCHANGED <<ready, done, polls, wakes, returnedReady, owed, seen,
                   wokenSinceClear>>
    /\ UNCHANGED execOthers

RECURSIVE SumOver(_, _)
SumOver(f, S) ==
    IF S = {} THEN 0
    ELSE LET x == CHOOSE y \in S : TRUE
         IN  f[x] + SumOver(f, S \ {x})

\* waking.rs:14, 18  entry.set_ready(true)
WakeBits(t) ==
    set_ready(ready, t, TRUE)

\* waking.rs:12-19  w_wake / w_wake_by_ref: invoked by the task during its own
\* poll, by another task, or by an interrupt between any two steps of run.
w_wake(t) ==
    /\ run_pc # "panicked"
    /\ SumOver(wakes, Tasks) < MaxWakes
    /\ ready' = WakeBits(t)
    /\ wakes' = [wakes EXCEPT ![t] = @ + 1]
    /\ wokenSinceClear' = [wokenSinceClear EXCEPT ![t] = TRUE]
    /\ owed' = [owed EXCEPT ![t] = @ \/ ~done[t]]
    /\ UNCHANGED <<done, run_pc, id, polls, returnedReady, seen, pass>>
    /\ UNCHANGED execOthers

RunStep ==
    \/ RunCheck
    \/ RunClear
    \/ RunPollBegin
    \/ \E isReady \in BOOLEAN : RunPollReturn(isReady)
    \/ RunAssert

NextExec ==
    \/ RunStep
    \/ \E t \in Tasks : w_wake(t)

(***************************************************************************)
(*                           BLOCK ALLOCATOR                               *)
(* LinkedListAllocator<N>: a lock-free stack of free blocks threaded       *)
(* through the first word of each block.  Blocks are numbered from 1 in    *)
(* address order and 0 is the null pointer.  Every atomic access of head   *)
(* and every access of a block is a step of its own, so that calls of      *)
(* several threads interleave as they do on the target.                    *)
(***************************************************************************)

\* (end - start) / N, the number of blocks handed to new.
NumBlocks ==
    2

\* Threads that share the allocator.
NumThreads ==
    2

Blocks ==
    DOMAIN link

Threads ==
    DOMAIN th

\* The values a pointer-sized word of a block can hold here.
Ptrs ==
    {0} \cup Blocks

\* A thread that is in no call and owns nothing.
\*   pc      "idle", "a_load"/"a_read"/"a_cas" inside allocate,
\*           "d_load"/"d_write"/"d_cas" inside deallocate, "panicked"
\*   ptr     allocate: the head loaded at line 50; deallocate: the block freed
\*   follow  allocate: follow_ptr (line 57); deallocate: current_head (line 90)
\*   owned   the blocks allocate has returned to this thread and it has not
\*           passed to deallocate
NoThread ==
    [pc |-> "idle", ptr |-> 0, follow |-> 0, owned |-> {}]

\* LinkedListAllocator::new (allocator.rs:17-40): block i points at block
\* i + 1, the last block at null, head at the first block.
AllocInit(nb, nt) ==
    /\ head = IF nb = 0 THEN 0 ELSE 1
    /\ link = [b \in 1 .. nb |-> IF b = nb THEN 0 ELSE b + 1]
    /\ th = [t \in 1 .. nt |-> NoThread]

\* No allocator: the state of the allocator variables in the other
\* components' specifications.
AllocIdle ==
    AllocInit(0, 0)

\* Block b is owned by some caller.
Owned(b) ==
    \E t \in Threads : b \in th[t].owned

\* allocate is called (allocator.rs:44-49) with a layout that fits a block.
AllocCall(t) ==
    /\ th[t].pc = "idle"
    /\ th' = [th EXCEPT ![t].pc = "a_load"]
    /\ UNCHANGED <<head, link>>
    /\ UNCHANGED allocOthers

\* allocator.rs:50-53: load head; panic when it is null.
AllocLoad(t) ==
    /\ th[t].pc = "a_load"
    /\ th' = [th EXCEPT ![t].ptr = head,
                        ![t].pc = IF head = 0 THEN "panicked" ELSE "a_read"]
    /\ UNCHANGED <<head, link>>
    /\ UNCHANGED allocOthers

\* allocator.rs:55-57: read_volatile of the first word of the block.  While
\* the block is owned by a caller its first word is that caller's data, and
\* the read races with the owner's writes: any value may come back.
AllocRead(t, v) ==
    /\ th[t].pc = "a_read"
    /\ v \in Ptrs
    /\ Owned(th[t].ptr) \/ v = link[th[t].ptr]
    /\ th' = [th EXCEPT ![t].follow = v, ![t].pc = "a_cas"]
    /\ UNCHANGED <<head, link>>
    /\ UNCHANGED allocOthers

\* Variant: a successful compare_exchange that leaves head where it was.
AllocCas_KeepHead(t) ==
    /\ th[t].pc = "a_cas"
    /\ head' = head
    /\ th' = IF head = th[t].ptr
             THEN [th EXCEPT ![t].pc = "idle",
                             ![t].owned = @ \cup {th[t].ptr},
                             ![t].ptr = 0, ![t].follow = 0]
             ELSE [th EXCEPT ![t].pc = "a_load", ![t].ptr = 0,
                             ![t].follow = 0]
    /\ UNCHANGED link
    /\ UNCHANGED allocOthers

\* allocator.rs:59-72: compare_exchange(ptr, follow_ptr); Ok returns the
\* block to the caller, Err goes round the loop.
AllocCas(t) ==
    /\ th[t].pc = "a_cas"
    /\ IF head = th[t].ptr
       THEN /\ head' = th[t].follow
            /\ th' = [th EXCEPT ![t].pc = "idle",
                                ![t].owned = @ \cup {th[t].ptr},
                                ![t].ptr = 0, ![t].follow = 0]
       ELSE /\ head' = head
            /\ th' = [th EXCEPT ![t].pc = "a_load", ![t].ptr = 0,
                                ![t].follow = 0]
    /\ UNCHANGED link
    /\ UNCHANGED allocOthers

\* deallocate is called (allocator.rs:85-87) with a block the caller owns.
DeallocCall(t, b) ==
    /\ th[t].pc = "idle"
    /\ b \in th[t].owned
    /\ th' = [th EXCEPT ![t].pc = "d_load", ![t].ptr = b,
                        ![t].owned = @ \ {b}]
    /\ UNCHANGED <<head, link>>
    /\ UNCHANGED allocOthers

\* allocator.rs:90: load head.
DeallocLoad(t) ==
    /\ th[t].pc = "d_load"
    /\ th' = [th EXCEPT ![t].follow = head, ![t].pc = "d_write"]
    /\ UNCHANGED <<head, link>>
    /\ UNCHANGED allocOthers

\* Variant: the freed block is made to point at null.
DeallocWrite_Null(t) ==
    /\ th[t].pc = "d_write"
    /\ link' = [link EXCEPT ![th[t].ptr] = 0]
    /\ th' = [th EXCEPT ![t].pc = "d_cas"]
    /\ UNCHANGED head
    /\ UNCHANGED allocOthers

\* allocator.rs:92-94: write_volatile(ptr_block, current_head).
DeallocWrite(t) ==
    /\ th[t].pc = "d_write"
    /\ link' = [link EXCEPT ![th[t].ptr] = th[t].follow]
    /\ th' = [th EXCEPT ![t].pc = "d_cas"]
    /\ UNCHANGED head
    /\ UNCHANGED allocOthers

\* allocator.rs:96-107: compare_exchange(current_head, ptr_block); Err goes
\* round the loop.
DeallocCas(t) ==
    /\ th[t].pc = "d_cas"
    /\ IF head = th[t].follow
       THEN /\ head' = th[t].ptr
            /\ th' = [th EXCEPT ![t].pc = "idle", ![t].ptr = 0,
                                ![t].follow = 0]
       ELSE /\ head' = head
            /\ th' = [th EXCEPT ![t].pc = "d_load", ![t].follow = 0]
    /\ UNCHANGED link
    /\ UNCHANGED allocOthers

(***************************************************************************)
(*                        UNBOUNDED MPSC QUEUE                             *)
(* unbounded::mpsc of queue.rs: a chain of segments (Buffer<T, N>), a Tx   *)
(* shared by the producer threads and one Rx.  Segments are numbered from  *)
(* 1 in the order the allocator hands them out and 0 is the null pointer;  *)
(* a freed segment is not handed out again within a behaviour.  Every      *)
(* access of an atomic that another thread can change is a step of its own.*)
(* A producer that touches a segment after it was freed has undefined      *)
(* behaviour: the thread's position becomes "undefined" and the model      *)
(* follows it no further.                                                  *)
(***************************************************************************)

\* Entry::state values (queue.rs:42, 127, 133, 229)
EntryEmpty ==
    0
EntryWriting ==
    1
EntryReady ==
    2
EntryConsumed ==
    3

\* N of Buffer<T, N> as Tx and Rx use it (queue.rs:58, 66).
SegmentSize ==
    4

\* Entries per segment in SpecQueue, where several producers run.
ReducedSegment ==
    2

\* Items one producer thread enqueues in SpecQueue.
ItemsEach ==
    2

Segments ==
    DOMAIN buffers

Producers ==
    DOMAIN prods

\* Entries per segment: the length of Buffer::entries.
EntryCount(b) ==
    Cardinality(DOMAIN b.entries)

\* Entry::default (queue.rs:39-46)
NoEntry ==
    [state |-> EntryEmpty, data |-> <<0, 0>>]

\* The Buffer written by Buffer::allocate (queue.rs:104-113).
NewBuffer(n) ==
    [entries |-> [i \in 0 .. (n - 1) |-> NoEntry], pos |-> 0, ref_count |-> 0,
     next |-> 0, status |-> "live"]

\* Memory the allocator has not handed out yet.
PoolBuffer(n) ==
    [NewBuffer(n) EXCEPT !.status = "pool"]

\* A producer thread outside try_enqueue.
NoProducer ==
    [pc |-> "idle", tail_ptr |-> 0, insert_pos |-> 0, new_buffer |-> 0,
     current_next |-> 0, sent |-> 0]

\* An Rx outside try_dequeue.
\*   last   what the last try_dequeue returned: "none", "Ok" or "Empty"
\*   quiet  history: the producers had stopped when the last call began
\*          (for drop: the Tx had been dropped)
NoConsumer ==
    [head |-> 0, pos |-> 0, pc |-> "idle", buf_ptr |-> 0, initial |-> TRUE,
     idx |-> 0, ptr |-> 0, last |-> "none", quiet |-> FALSE]

\* queue() (queue.rs:70-92): one segment with ref_count 1, tail and head on
\* it.  n entries per segment, nprod producer threads, nsegs segments of
\* memory, each producer enqueues up to limit items.
QueueInit(n, nprod, nsegs, limit) ==
    /\ buffers = [s \in 1 .. nsegs |->
                    IF s = 1 THEN [NewBuffer(n) EXCEPT !.ref_count = 1]
                    ELSE PoolBuffer(n)]
    /\ tx = [tail |-> IF nsegs = 0 THEN 0 ELSE 1, held |-> TRUE,
             limit |-> limit]
    /\ prods = [p \in 1 .. nprod |-> NoProducer]
    /\ rx = [NoConsumer EXCEPT !.head = IF nsegs = 0 THEN 0 ELSE 1]
    /\ delivered = <<>>

\* No queue: the state of the queue variables in the other components'
\* specifications.
QueueIdle ==
    QueueInit(0, 0, 0, 0)

\* The segment pointer s can be dereferenced.
Live(s) ==
    s \in Segments /\ buffers[s].status = "live"

\* Thread p dereferences a pointer to freed memory.
ProducerUndefined(p) ==
    /\ prods' = [prods EXCEPT ![p].pc = "undefined"]
    /\ UNCHANGED <<buffers, tx, rx, delivered>>

\* Tx::try_enqueue is called (queue.rs:148) with the next item of thread p.
TxCall(p) ==
    /\ tx.held
    /\ prods[p].pc = "idle"
    /\ prods[p].sent < tx.limit
    /\ prods' = [prods EXCEPT ![p].pc = "t_load"]
    /\ UNCHANGED <<buffers, tx, rx, delivered>>
    /\ UNCHANGED queueOthers

\* queue.rs:150  let tail_ptr = self.tail.load(..)
TxLoadTail(p) ==
    /\ prods[p].pc = "t_load"
    /\ prods' = [prods EXCEPT ![p].tail_ptr = tx.tail, ![p].pc = "t_fetch"]
    /\ UNCHANGED <<buffers, tx, rx, delivered>>
    /\ UNCHANGED queueOthers

\* Buffer::try_enqueue, queue.rs:120-123: pos.fetch_add(1); Err when the
\* segment is full.  pos is kept up to the segment size: all larger values
\* take the same branch.
TxFetchAdd(p) ==
    /\ prods[p].pc = "t_fetch"
    /\ LET s == prods[p].tail_ptr
       IN  IF ~Live(s) THEN ProducerUndefined(p)
           ELSE LET n == EntryCount(buffers[s])
                    insert_pos == buffers[s].pos
                IN  /\ buffers' = [buffers EXCEPT ![s].pos = Min(@ + 1, n)]
                    /\ prods' = [prods EXCEPT
                                    ![p].insert_pos = insert_pos,
                                    ![p].pc = IF insert_pos >= n
                                              THEN "t_next" ELSE "t_store1"]
                    /\ UNCHANGED <<tx, rx, delivered>>
    /\ UNCHANGED queueOthers

\* queue.rs:125-127  entry.state.store(1)
TxStoreWriting(p) ==
    /\ prods[p].pc = "t_store1"
    /\ LET s == prods[p].tail_ptr
       IN  IF ~Live(s) THEN ProducerUndefined(p)
           ELSE /\ buffers' = [buffers EXCEPT
                      ![s].entries[prods[p].insert_pos].state = EntryWriting]
                /\ prods' = [prods EXCEPT ![p].pc = "t_store2"]
                /\ UNCHANGED <<tx, rx, delivered>>
    /\ UNCHANGED queueOthers

\* queue.rs:129-135  write the data, entry.state.store(2), return Ok.
TxStoreReady(p) ==
    /\ prods[p].pc = "t_store2"
    /\ LET s == prods[p].tail_ptr
       IN  IF ~Live(s) THEN ProducerUndefined(p)
           ELSE /\ buffers' = [buffers EXCEPT
                      ![s].entries[prods[p].insert_pos] =
                          [state |-> EntryReady,
                           data |-> <<p, prods[p].sent + 1>>]]
                /\ prods' = [prods EXCEPT ![p].pc = "idle",
                                          ![p].sent = @ + 1,
                                          ![p].tail_ptr = 0,
                                          ![p].insert_pos = 0]
                /\ UNCHANGED <<tx, rx, delivered>>
    /\ UNCHANGED queueOthers

\* queue.rs:158-159, 172  buffer.next.load(..)
TxLoadNext(p) ==
    /\ prods[p].pc = "t_next"
    /\ LET s == prods[p].tail_ptr
       IN  IF ~Live(s) THEN ProducerUndefined(p)
           ELSE /\ prods' = [prods EXCEPT
                               ![p].current_next = buffers[s].next,
                               ![p].insert_pos = 0,
                               ![p].pc = IF buffers[s].next = 0
                                         THEN "t_alloc" ELSE "t_ref"]
                /\ UNCHANGED <<buffers, tx, rx, delivered>>
    /\ UNCHANGED queueOthers

\* queue.rs:160  Buffer::allocate(self.allocator): the next segment of memory.
TxAllocate(p) ==
    /\ prods[p].pc = "t_alloc"
    /\ \E s \in Segments :
          /\ buffers[s].status = "pool"
          /\ \A r \in Segments : r < s => buffers[r].status # "pool"
          /\ buffers' = [buffers EXCEPT ![s].status = "live"]
          /\ prods' = [prods EXCEPT ![p].new_buffer = s,
                                    ![p].pc = "t_casnext"]
    /\ UNCHANGED <<tx, rx, delivered>>
    /\ UNCHANGED queueOthers

\* queue.rs:162-170  buffer.next.compare_exchange(null, new_buffer): the
\* winner goes on with its segment, the loser with the one it found.
TxCasNext(p) ==
    /\ prods[p].pc = "t_casnext"
    /\ LET s == prods[p].tail_ptr
       IN  IF ~Live(s) THEN ProducerUndefined(p)
           ELSE /\ buffers' = [buffers EXCEPT
                      ![s].next = IF @ = 0 THEN prods[p].new_buffer ELSE @]
                /\ prods' = [prods EXCEPT
                      ![p].current_next = IF buffers[s].next = 0
                                          THEN prods[p].new_buffer
                                          ELSE buffers[s].next,
                      ![p].new_buffer = 0,
                      ![p].pc = "t_ref"]
                /\ UNCHANGED <<tx, rx, delivered>>
    /\ UNCHANGED queueOthers

\* queue.rs:175-176  next.ref_count.fetch_add(1)
TxRefNext(p) ==
    /\ prods[p].pc = "t_ref"
    /\ LET s == prods[p].current_next
       IN  IF ~Live(s) THEN ProducerUndefined(p)
           ELSE /\ buffers' = [buffers EXCEPT ![s].ref_count = @ + 1]
                /\ prods' = [prods EXCEPT ![p].pc = "t_castail"]
                /\ UNCHANGED <<tx, rx, delivered>>
    /\ UNCHANGED queueOthers

\* queue.rs:178-184  self.tail.compare_exchange(tail_ptr, current_next)
TxCasTail(p) ==
    /\ prods[p].pc = "t_castail"
    /\ IF tx.tail = prods[p].tail_ptr
       THEN /\ tx' = [tx EXCEPT !.tail = prods[p].current_next]
            /\ prods' = [prods EXCEPT ![p].pc = "t_unref"]
       ELSE /\ tx' = tx
            /\ prods' = [prods EXCEPT ![p].pc = "t_undo"]
    /\ UNCHANGED <<buffers, rx, delivered>>
    /\ UNCHANGED queueOthers

\* queue.rs:185-187  the tail had moved: next.ref_count.fetch_sub(1)
TxUndoRef(p) ==
    /\ prods[p].pc = "t_undo"
    /\ LET s == prods[p].current_next
       IN  IF ~Live(s) THEN ProducerUndefined(p)
           ELSE /\ buffers' = [buffers EXCEPT ![s].ref_count = @ - 1]
                /\ prods' = [prods EXCEPT ![p].pc = "t_unref"]
                /\ UNCHANGED <<tx, rx, delivered>>
    /\ UNCHANGED queueOthers

\* queue.rs:190  buffer.ref_count.fetch_sub(1), then round the loop.
TxUnrefOld(p) ==
    /\ prods[p].pc = "t_unref"
    /\ LET s == prods[p].tail_ptr
       IN  IF ~Live(s) THEN ProducerUndefined(p)
           ELSE /\ buffers' = [buffers EXCEPT ![s].ref_count = @ - 1]
                /\ prods' = [prods EXCEPT ![p].pc = "t_load",
                                          ![p].tail_ptr = 0,
                                          ![p].current_next = 0]
                /\ UNCHANGED <<tx, rx, delivered>>
    /\ UNCHANGED queueOthers

\* Tx::drop (queue.rs:197-205), when the last thread lets go of the Tx.
TxDrop ==
    /\ tx.held
    /\ \A p \in Producers : prods[p].pc = "idle"
    /\ tx' = [tx EXCEPT !.held = FALSE]
    /\ Live(tx.tail)
    /\ buffers' = [buffers EXCEPT ![tx.tail].ref_count = @ - 1]
    /\ UNCHANGED <<prods, rx, delivered>>
    /\ UNCHANGED queueOthers

\* No producer thread is inside try_enqueue and none will call it again.
ProducersStopped ==
    \A p \in Producers :
        prods[p].pc = "idle" /\ (prods[p].sent = tx.limit \/ ~tx.held)

\* Where try_dequeue goes when its scan has reached index i of a segment
\* of n entries.
ScanPc(i, n) ==
    IF i >= n THEN "r_next" ELSE "r_scan"

\* Rx::try_dequeue is called (queue.rs:211-216): the scan starts at self.pos
\* of the head segment.
RxCall ==
    /\ rx.pc = "idle"
    /\ rx' = [rx EXCEPT !.buf_ptr = rx.head, !.initial = TRUE,
                        !.idx = rx.pos, !.ptr = 0, !.last = "none",
                        !.quiet = ProducersStopped,
                        !.pc = ScanPc(rx.pos, EntryCount(buffers[rx.head]))]
    /\ UNCHANGED <<buffers, tx, prods, delivered>>
    /\ UNCHANGED queueOthers

\* The index enumerate() gives entry i of the scanned slice (queue.rs:216-221):
\* counted from self.pos in the first segment of a call.
SliceIndex(i) ==
    IF rx.initial THEN i - rx.pos ELSE i

\* queue.rs:218-236: the state of the next entry is loaded; a Ready entry is
\* taken, marked Consumed and returned.
RxScan ==
    /\ rx.pc = "r_scan"
    /\ LET s == rx.buf_ptr
           i == rx.idx
           e == buffers[s].entries[i]
       IN  IF e.state = EntryReady
           THEN /\ buffers' = [buffers EXCEPT ![s].entries[i] =
                                  [state |-> EntryConsumed, data |-> <<0, 0>>]]
                /\ delivered' = Append(delivered, e.data)
                /\ rx' = [rx EXCEPT
                            !.pos = IF rx.initial /\ rx.pos = SliceIndex(i)
                                    THEN @ + 1 ELSE @,
                            !.pc = "idle", !.last = "Ok", !.buf_ptr = 0,
                            !.idx = 0, !.initial = TRUE]
           ELSE /\ rx' = [rx EXCEPT
                            !.idx = i + 1,
                            !.pc = ScanPc(i + 1, EntryCount(buffers[s]))]
                /\ UNCHANGED <<buffers, delivered>>
    /\ UNCHANGED <<tx, prods>>
    /\ UNCHANGED queueOthers

\* queue.rs:237-240  no Ready entry: buffer.next.load(..); Empty when null.
RxLoadNext ==
    /\ rx.pc = "r_next"
    /\ LET ptr == buffers[rx.buf_ptr].next
       IN  rx' = IF ptr = 0
                 THEN [rx EXCEPT !.pc = "idle", !.last = "Empty",
                                 !.buf_ptr = 0, !.idx = 0, !.initial = TRUE]
                 ELSE [rx EXCEPT !.pc = "r_check", !.ptr = ptr]
    /\ UNCHANGED <<buffers, tx, prods, delivered>>
    /\ UNCHANGED queueOthers

\* allocator.deallocate of a segment (queue.rs:251-256, 300-305).
Deallocated(b) ==
    [b EXCEPT !.status = IF @ = "live" THEN "freed" ELSE "freed twice"]

\* queue.rs:241-267: a segment whose entries are all Consumed is freed when
\* its ref_count is 0 and it is the head (todo!() when the count is not 0);
\* the scan goes on in the successor.
RxCheck ==
    /\ rx.pc = "r_check"
    /\ LET s == rx.buf_ptr
           b == buffers[s]
           all == \A i \in DOMAIN b.entries :
                      b.entries[i].state = EntryConsumed
           moved == [rx EXCEPT !.buf_ptr = rx.ptr, !.initial = FALSE,
                               !.idx = 0, !.ptr = 0, !.pc = "r_scan"]
       IN  IF all /\ b.ref_count # 0
           THEN /\ rx' = [rx EXCEPT !.pc = "panicked"]
                /\ UNCHANGED buffers
           ELSE IF all /\ rx.head = s /\ rx.initial
           THEN /\ rx' = [moved EXCEPT !.head = rx.ptr, !.pos = 0]
                /\ buffers' = [buffers EXCEPT ![s] = Deallocated(b)]
           ELSE /\ rx' = moved
                /\ UNCHANGED buffers
    /\ UNCHANGED <<tx, prods, delivered>>
    /\ UNCHANGED queueOthers

\* Rx::drop is called (queue.rs:280).
RxDrop ==
    /\ rx.pc = "idle"
    /\ rx' = [rx EXCEPT !.pc = "r_drop", !.quiet = ~tx.held]
    /\ UNCHANGED <<buffers, tx, prods, delivered>>
    /\ UNCHANGED queueOthers

\* queue.rs:281-285: the loop ends at null and at a segment whose ref_count
\* is not 0.
RxDropLoad ==
    /\ rx.pc = "r_drop"
    /\ rx' = [rx EXCEPT !.pc = IF rx.head = 0 THEN "dropped"
                               ELSE IF buffers[rx.head].ref_count # 0
                               THEN "dropped" ELSE "r_free"]
    /\ UNCHANGED <<buffers, tx, prods, delivered>>
    /\ UNCHANGED queueOthers

\* queue.rs:287-305: the data of the Ready entries is dropped, head moves to
\* the successor and the segment is deallocated.
RxDropFree ==
    /\ rx.pc = "r_free"
    /\ LET s == rx.head
           b == buffers[s]
           drained == [b EXCEPT !.entries =
                          [i \in DOMAIN b.entries |->
                              IF b.entries[i].state = EntryReady
                              THEN [b.entries[i] EXCEPT !.data = <<0, 0>>]
                              ELSE b.entries[i]]]
       IN  /\ buffers' = [buffers EXCEPT ![s] = Deallocated(drained)]
           /\ rx' = [rx EXCEPT !.head = b.next, !.pc = "r_drop"]
    /\ UNCHANGED <<tx, prods, delivered>>
    /\ UNCHANGED queueOthers

(***************************************************************************)
(*                            PACKET CODEC                                 *)
(* packet.rs, options.rs and traits.rs.  A frame is a sequence of FrameLen *)
(* bytes, numbered from 1: version, receiver, 253 bytes of payload, crc.   *)
(* A receiver is [tag, id]; packet data is a record whose field kind names *)
(* the variant of PacketData; a name is the sequence of its bytes.  A      *)
(* A list (OptionsIter) is [form |-> "Fixed", data] or [form |->           *)
(* "Received", buffer, length].  A                                         *)
(* decoder yields [res |-> "Ok", ...], [res |-> "Err", ...] or, where the  *)
(* source panics, [res |-> "Panic"].                                       *)
(***************************************************************************)

\* const VERSION
VERSION ==
    0

\* The length of a frame, [u8; 256].
FrameLen ==
    256

\* The raw receiver bytes of the Controller and of Everyone.
ControllerByte ==
    0

EveryoneByte ==
    255

Controller ==
    [tag |-> "Controller", id |-> 0]

Everyone ==
    [tag |-> "Everyone", id |-> 0]

ID(n) ==
    [tag |-> "ID", id |-> n]

\* The first n bytes of s followed by zeroes: a slice of a zeroed buffer
\* after s was copied to its start.
Pad(s, n) ==
    [i \in 1 .. n |-> IF i <= Len(s) THEN s[i] ELSE 0]

\* impl From<u8> for ReceiverID
ReceiverID_from(raw) ==
    IF raw = ControllerByte THEN Controller
    ELSE IF raw = EveryoneByte THEN Everyone
    ELSE ID(raw)

\* impl From<&ReceiverID> for u8
ReceiverID_into(r) ==
    IF r.tag = "Controller" THEN ControllerByte
    ELSE IF r.tag = "Everyone" THEN EveryoneByte
    ELSE r.id

RECURSIVE Flatten(_)
\* The concatenation of a sequence of byte sequences.
Flatten(parts) ==
    IF parts = <<>> THEN <<>>
    ELSE Head(parts) \o Flatten(Tail(parts))

\* PacketData::serialize with the Sendable implementations it calls, for
\* data that fits the payload.  The result is the payload from its start to
\* the last byte written.
PacketData_serialize(d) ==
    LET str(name) == <<Len(name)>> \o name
        value(v) == IF v.tag = "Switch"
                    THEN <<0, IF v.state THEN 1 ELSE 0>>
                    ELSE <<1, v.percent>>
        point(p) == str(p.name) \o value(p.value)
        option(o) == str(o.name) \o <<IF o.ty = "Switch" THEN 0 ELSE 1>>
        list(l, tail) ==
            IF l.form = "Fixed"
            THEN <<Len(l.data) % 256>>
                    \o Flatten([i \in 1 .. Len(l.data) |->
                                    IF tail = 2 THEN point(l.data[i])
                                    ELSE option(l.data[i])])
            ELSE <<l.length % 256>> \o l.buffer
    IN  CASE d.kind = "InitProbe" -> <<0>>
          [] d.kind = "InitProbeResponse" ->
                <<1, IF d.status THEN 1 ELSE 0,
                  IF d.id = <<>> THEN 0 ELSE d.id[1]>>
          [] d.kind = "Init" -> <<2, d.id>>
          [] d.kind = "Acknowledge" -> <<3>>
          [] d.kind = "Restart" -> <<5>>
          [] d.kind = "Configure" -> <<6>> \o point(d.option)
          [] d.kind = "Metrics" -> <<7>>
          [] d.kind = "MetricsResponse" -> <<8>> \o list(d.metrics, 2)
          [] d.kind = "ConfigureOptions" -> <<9>>
          [] d.kind = "ConfigureOptionsResponse" -> <<10>> \o list(d.options, 1)

\* Packet::serialize: the version is VERSION whatever the packet says, and
\* the crc is 0.
Packet_serialize(p) ==
    Pad(<<VERSION, ReceiverID_into(p.receiver)>> \o PacketData_serialize(p.data),
        FrameLen)

RECURSIVE from_utf8(_)
\* core::str::from_utf8 as <&str>::deserialize calls it (traits.rs:32):
\* whether the bytes are well-formed UTF-8.
from_utf8(s) ==
    LET cont(i, lo, hi) == i <= Len(s) /\ s[i] >= lo /\ s[i] <= hi
        from(i) == from_utf8(SubSeq(s, i, Len(s)))
        b == s[1]
    IN  IF \A i \in 1 .. Len(s) : s[i] < 128 THEN TRUE
        ELSE IF b < 128 THEN from(2)
        ELSE IF b >= 194 /\ b <= 223 THEN cont(2, 128, 191) /\ from(3)
        ELSE IF b >= 224 /\ b <= 239
             THEN /\ cont(2, IF b = 224 THEN 160 ELSE 128,
                             IF b = 237 THEN 159 ELSE 191)
                  /\ cont(3, 128, 191) /\ from(4)
        ELSE IF b >= 240 /\ b <= 244
             THEN /\ cont(2, IF b = 240 THEN 144 ELSE 128,
                             IF b = 244 THEN 143 ELSE 191)
                  /\ cont(3, 128, 191) /\ cont(4, 128, 191) /\ from(5)
        ELSE FALSE

RECURSIVE WalkItems(_, _, _, _)
\* The loop of OptionsIter::deserialize: the number of bytes the first
\* `items` items take from position `at` of buf, or -1 where decoding an
\* item panics or fails.  An item is a DataPoint (tail 2: tag and operand,
\* tag 0 or 1) or a ConfigOption (tail 1: type 0 or 1).
WalkItems(buf, at, items, tail) ==
    IF items = 0 THEN 0
    ELSE IF at > Len(buf) THEN -1
    ELSE LET len == buf[at]
             after == at + 1 + len
         IN  IF after + tail - 1 > Len(buf) \/ buf[after] > 1 THEN -1
             ELSE IF ~from_utf8(SubSeq(buf, at + 1, at + len)) THEN -1
             ELSE LET more == WalkItems(buf, after + tail, items - 1, tail)
                  IN  IF more = -1 THEN -1 ELSE 1 + len + tail + more

\* PacketData::parse on the 253 bytes of payload.
PacketData_parse(value) ==
    LET ptype_id == value[1]
        rest == SubSeq(value, 2, Len(value))
        ok(d) == [res |-> "Ok", data |-> d]
        panic == [res |-> "Panic"]
        received(tail) ==
            LET n == WalkItems(rest, 2, rest[1], tail)
            IN  [form |-> "Received", buffer |-> SubSeq(rest, 2, 1 + n),
                 length |-> rest[1]]
    IN  CASE ptype_id = 0 -> ok([kind |-> "InitProbe"])
          [] ptype_id = 1 ->
                ok([kind |-> "InitProbeResponse", status |-> value[2] # 0,
                    id |-> IF value[2] # 0 THEN <<value[3]>> ELSE <<>>])
          [] ptype_id = 2 -> ok([kind |-> "Init", id |-> value[2]])
          [] ptype_id = 3 -> ok([kind |-> "Acknowledge"])
          [] ptype_id = 4 -> panic
          [] ptype_id = 5 -> ok([kind |-> "Restart"])
          [] ptype_id = 6 ->
                IF WalkItems(rest, 1, 1, 2) = -1 THEN panic
                ELSE LET len == rest[1]
                     IN  ok([kind |-> "Configure",
                             option |->
                                [name |-> SubSeq(rest, 2, 1 + len),
                                 value |->
                                    IF rest[2 + len] = 0
                                    THEN [tag |-> "Switch",
                                          state |-> rest[3 + len] = 1]
                                    ELSE [tag |-> "Pwm",
                                          percent |-> rest[3 + len]]]])
          [] ptype_id = 7 -> ok([kind |-> "Metrics"])
          [] ptype_id = 8 ->
                IF WalkItems(rest, 2, rest[1], 2) = -1 THEN panic
                ELSE ok([kind |-> "MetricsResponse", metrics |-> received(2)])
          [] ptype_id = 9 -> ok([kind |-> "ConfigureOptions"])
          [] ptype_id = 10 ->
                IF WalkItems(rest, 2, rest[1], 1) = -1 THEN panic
                ELSE ok([kind |-> "ConfigureOptionsResponse",
                         options |-> received(1)])
          [] OTHER -> [res |-> "Err", err |-> <<"UnknownID", ptype_id>>]

\* Packet::deserialize: the crc is not looked at.
Packet_deserialize(buffer) ==
    LET parsed == PacketData_parse(SubSeq(buffer, 3, FrameLen - 1))
    IN  IF parsed.res = "Ok"
        THEN [res |-> "Ok",
              packet |-> [protocol_version |-> buffer[1],
                          receiver |-> ReceiverID_from(buffer[2]),
                          data |-> parsed.data]]
        ELSE parsed

(***************************************************************************)
(*                          EXTENSION ROLE                                 *)
(* Extension::init and Extension::run of extension.rs with the serial      *)
(* port, the ready pin and the selection pin they are given.  What the     *)
(* pins and the port answer is an input of the step that asks.  In init    *)
(* every call of serial.write is a step; in run a step goes from one       *)
(* await to the next.                                                      *)
(***************************************************************************)

\* Ids the controller hands out on this bus.
Ids ==
    {13, 14}

\* What the metrics callback may return, and the static config_options;
\* <<116>> is the name "t".
MetricLists ==
    {<<>>, <<[name |-> <<116>>, value |-> [tag |-> "Pwm", percent |-> 10]]>>}

OptionLists ==
    {<<>>, <<[name |-> <<116>>, ty |-> "Switch"]>>}

\* impl From<&[T]> for OptionsIter
Fixed(list) ==
    [form |-> "Fixed", data |-> list]

\* The frames that pass on the bus: every variant that can be serialized,
\* to every kind of receiver, and two frames no Packet serializes to: an
\* Error frame (discriminator 4) and an unknown discriminator.
BusData ==
    {[kind |-> "InitProbe"], [kind |-> "Acknowledge"], [kind |-> "Restart"],
     [kind |-> "Metrics"], [kind |-> "ConfigureOptions"],
     [kind |-> "InitProbeResponse", status |-> FALSE, id |-> <<>>],
     [kind |-> "Configure",
      option |-> [name |-> <<116>>, value |-> [tag |-> "Switch", state |-> TRUE]]]}
        \cup {[kind |-> "Init", id |-> n] : n \in Ids}
        \cup {[kind |-> "MetricsResponse", metrics |-> Fixed(l)] : l \in MetricLists}

BusReceivers ==
    {Controller, Everyone} \cup {ID(n) : n \in Ids}

Bus ==
    {Packet_serialize([protocol_version |-> VERSION, receiver |-> r, data |-> d]) :
        r \in BusReceivers, d \in BusData}
        \cup {Pad(<<VERSION, ReceiverID_into(r), n>>, FrameLen) :
                r \in BusReceivers, n \in {4, 11}}

\* Packet::ack
ack(recv) ==
    [protocol_version |-> VERSION, receiver |-> recv,
     data |-> [kind |-> "Acknowledge"]]

\* The value of ext.packet while no frame has been decoded.
NoPacket ==
    [protocol_version |-> VERSION, receiver |-> Controller,
     data |-> [kind |-> "None"]]

\* extension.rs:40-41, the test of init that skips a frame.  Variant: the
\* receiver is not looked at.
Ignored_AnyReceiver(selected, receiver) ==
    ~selected

Ignored(selected, receiver) ==
    ~selected \/ receiver # Everyone

\* extension.rs:121-125, the receivers run goes on with.  Variant: every
\* frame addressed to an extension is taken.
Accepts_AnyId(receiver, selected, own) ==
    \/ receiver = Everyone /\ selected
    \/ receiver.tag = "ID"

Accepts(receiver, selected, own) ==
    \/ receiver = Everyone /\ selected
    \/ receiver = ID(own)

\* extension.rs:150-153, the Restart branch of run.  Variant: the ready
\* line is left as it is.
Restart_KeepsReady(e) ==
    [e EXCEPT !.pc = "returned"]

Restart(e) ==
    [e EXCEPT !.pc = "returned", !.ready_pin = "low"]

\* The state before Extension::init is called.
ProtoInit(options) ==
    /\ ext = [pc |-> "init", ready_pin |-> "unset", id |-> <<>>,
              packet |-> NoPacket, selected |-> FALSE, byte |-> 1,
              reply |-> <<>>, config_options |-> options]
    /\ wire = [out |-> <<>>, okAt |-> 0, flushes |-> 0, sent |-> <<>>,
               wr |-> "none"]
    /\ calls = [configure |-> <<>>, metrics |-> <<>>, ignored |-> FALSE,
                readUnready |-> FALSE, err |-> "none"]

ProtoIdle ==
    ProtoInit(<<>>)

\* extension.rs:32, ready.set_high()
InitRaise(result) ==
    /\ ext.pc = "init"
    /\ IF result = "Ok"
       THEN /\ ext' = [ext EXCEPT !.pc = "read", !.ready_pin = "high"]
            /\ calls' = calls
       ELSE /\ ext' = [ext EXCEPT !.pc = "failed"]
            /\ calls' = [calls EXCEPT !.err = "ReadyError"]
    /\ UNCHANGED <<wire, protoOthers>>

\* extension.rs:35-48, 75-79 and 90-92: read_blocking, the selection test
\* and the match on the data.  `read` is "Ok" or the error of a serial.read
\* (WouldBlock is retried inside read_blocking); sel is what
\* selection.is_high() answers.
InitRead(read, buffer, sel) ==
    /\ ext.pc = "read"
    /\ LET decoded == Packet_deserialize(buffer)
           selected == (sel = "High")
           heard == [calls EXCEPT !.readUnready = @ \/ ext.ready_pin # "high"]
           fresh == [out |-> <<>>, okAt |-> 0, flushes |-> 0, sent |-> <<>>,
                     wr |-> "none"]
       IN  IF read # "Ok"
           THEN /\ ext' = [ext EXCEPT !.pc = "failed", !.packet = NoPacket]
                /\ calls' = [heard EXCEPT !.err = "ReadingSerial"]
                /\ wire' = fresh
           ELSE IF decoded.res = "Panic"
           THEN /\ ext' = [ext EXCEPT !.pc = "panicked", !.packet = NoPacket]
                /\ calls' = heard
                /\ wire' = fresh
           ELSE IF decoded.res = "Err"
           THEN /\ ext' = [ext EXCEPT !.pc = "failed", !.packet = NoPacket]
                /\ calls' = [heard EXCEPT !.err = "ReadingSerial"]
                /\ wire' = fresh
           ELSE LET packet == decoded.packet
                    seen_ == [ext EXCEPT !.packet = packet,
                                         !.selected = selected, !.byte = 1]
                IN  /\ wire' = fresh
                    /\ IF Ignored(selected, packet.receiver)
                       THEN /\ ext' = seen_
                            /\ calls' = [heard EXCEPT !.ignored = TRUE]
                       ELSE /\ calls' = heard
                            /\ ext' =
                                CASE packet.data.kind = "InitProbe" ->
                                        [seen_ EXCEPT
                                            !.pc = "probe",
                                            !.reply = Packet_serialize(
                                                [protocol_version |-> VERSION,
                                                 receiver |-> Controller,
                                                 data |-> [kind |-> "InitProbeResponse",
                                                           status |-> FALSE,
                                                           id |-> <<>>]])]
                                  [] packet.data.kind = "Init" ->
                                        [seen_ EXCEPT
                                            !.pc = "ack",
                                            !.reply = Packet_serialize(ack(Controller))]
                                  [] OTHER -> [seen_ EXCEPT !.pc = "panicked"]
    /\ UNCHANGED protoOthers

\* Successful writes of one byte the model follows in the loop of
\* extension.rs:62-69.
MaxRepeat ==
    3

\* extension.rs:61-69, one call of serial.write in the InitProbe branch.
\* The inner loop has no break: after Ok it calls serial.write with the
\* same byte again, so the for loop never reaches the next byte and lines
\* 71-73 (flush, continue) are never reached.
ProbeWrite(result) ==
    /\ ext.pc = "probe"
    /\ CASE result = "Ok" ->
                /\ wire.okAt < MaxRepeat
                /\ wire' = [wire EXCEPT !.out = Append(@, ext.reply[ext.byte]),
                                        !.okAt = @ + 1, !.wr = "Ok"]
                /\ UNCHANGED <<ext, calls>>
         [] result = "WouldBlock" ->
                /\ wire' = [wire EXCEPT !.wr = "WouldBlock"]
                /\ UNCHANGED <<ext, calls>>
         [] OTHER ->
                /\ wire' = [wire EXCEPT !.wr = "Other"]
                /\ ext' = [ext EXCEPT !.pc = "failed"]
                /\ calls' = [calls EXCEPT !.err = "WritingSerial"]
    /\ UNCHANGED protoOthers

\* extension.rs:81-88 and 96-101, one call of serial.write in the Init
\* branch; after the last byte serial.flush() (its result is dropped) and
\* the return of the Extension.  Any error of write, WouldBlock included,
\* is returned as WritingSerial.
AckWrite(result) ==
    /\ ext.pc = "ack"
    /\ IF result = "Ok"
       THEN /\ wire' = [wire EXCEPT !.out = Append(@, ext.reply[ext.byte]),
                                    !.wr = "Ok",
                                    !.flushes = IF ext.byte = FrameLen
                                                THEN @ + 1 ELSE @]
            /\ ext' = IF ext.byte = FrameLen
                      THEN [ext EXCEPT !.pc = "initialised",
                                       !.id = <<ext.packet.data.id>>]
                      ELSE [ext EXCEPT !.byte = @ + 1]
            /\ calls' = calls
       ELSE /\ wire' = [wire EXCEPT !.wr = result]
            /\ ext' = [ext EXCEPT !.pc = "failed"]
            /\ calls' = [calls EXCEPT !.err = "WritingSerial"]
    /\ UNCHANGED protoOthers

\* extension.rs:115-184 up to the await of the write: run is called or the
\* loop comes round, a frame is read and decoded, the receiver is tested,
\* the callback of the variant runs and the reply is serialized.  sel is
\* what selection_pin.is_high() answers and sampled what metrics() returns.
RunRead(buffer, sel, sampled) ==
    /\ ext.pc \in {"initialised", "run"}
    /\ LET decoded == Packet_deserialize(buffer)
           own == ext.id[1]
           fresh == [out |-> <<>>, okAt |-> 0, flushes |-> 0, sent |-> <<>>,
                     wr |-> "none"]
           quiet == [calls EXCEPT !.configure = <<>>, !.metrics = <<>>]
       IN  /\ wire' = fresh
           /\ IF decoded.res # "Ok"
              THEN /\ ext' = [ext EXCEPT !.pc = "panicked", !.packet = NoPacket]
                   /\ calls' = quiet
              ELSE LET packet == decoded.packet
                       kind == packet.data.kind
                       accepted == Accepts(packet.receiver, sel = "High", own)
                       seen_ == [ext EXCEPT !.packet = packet,
                                            !.selected = (sel = "High"),
                                            !.reply = <<>>]
                       answer(d) ==
                           [seen_ EXCEPT
                               !.pc = "write",
                               !.reply = Packet_serialize(
                                   [protocol_version |-> VERSION,
                                    receiver |-> Controller, data |-> d])]
                   IN  IF ~accepted
                       THEN /\ ext' = [seen_ EXCEPT !.pc = "run"]
                            /\ calls' = [quiet EXCEPT !.ignored = TRUE]
                       ELSE CASE kind = "InitProbe" ->
                                    /\ ext' = answer([kind |-> "InitProbeResponse",
                                                      status |-> TRUE,
                                                      id |-> <<own>>])
                                    /\ calls' = quiet
                              [] kind = "Restart" ->
                                    /\ ext' = Restart(seen_)
                                    /\ calls' = quiet
                              [] kind = "Configure" ->
                                    /\ ext' = answer([kind |-> "Acknowledge"])
                                    /\ calls' = [quiet EXCEPT !.configure =
                                                    <<packet.data.option>>]
                              [] kind = "Metrics" ->
                                    /\ ext' = answer([kind |-> "MetricsResponse",
                                                      metrics |-> Fixed(sampled)])
                                    /\ calls' = [quiet EXCEPT !.metrics = <<sampled>>]
                              [] kind = "ConfigureOptions" ->
                                    /\ ext' = answer([kind |-> "ConfigureOptionsResponse",
                                                      options |-> Fixed(ext.config_options)])
                                    /\ calls' = quiet
                              [] OTHER ->
                                    /\ ext' = [seen_ EXCEPT !.pc = "panicked"]
                                    /\ calls' = quiet
    /\ UNCHANGED protoOthers

\* Variant of RunWrite: the frame is not handed to the serial port.
RunWrite_Dropped ==
    /\ ext.pc = "write"
    /\ ext' = [ext EXCEPT !.pc = "run"]
    /\ UNCHANGED <<wire, calls, protoOthers>>

\* extension.rs:148, 158, 171 and 182: the await of async_serial.write
\* completes and the loop goes back to read.
RunWrite ==
    /\ ext.pc = "write"
    /\ wire' = [wire EXCEPT !.sent = Append(@, ext.reply)]
    /\ ext' = [ext EXCEPT !.pc = "run"]
    /\ UNCHANGED <<calls, protoOthers>>

(***************************************************************************)
(*                          CONTROLLER ROLE                                *)
(* Controller::init of controller.rs: the closure of array::from_fn runs   *)
(* for the slots 0 .. N-1 in order.  Every call of serial.write is a step. *)
(* The loop of controller.rs:68-75 has no break, so the flush, the read of *)
(* the response and the match on it (controller.rs:77-96) are never        *)
(* reached and have no step here.                                          *)
(***************************************************************************)

\* The largest N of Controller<N, ..>.
MaxSlots ==
    4

\* Packet::init_probe
init_probe ==
    [protocol_version |-> VERSION, receiver |-> Everyone,
     data |-> [kind |-> "InitProbe"]]

\* The state before Controller::init is called with n slots of which
\* ReadyCheck reports those of pattern ready.
CtrlInit(n, pattern) ==
    ctrl = [pc |-> "check", n |-> n, ready |-> pattern, idx |-> 0,
            byte |-> 1, extensions |-> <<>>,
            selects |-> <<>>, out |-> <<>>, okAt |-> 0, wr |-> "none",
            turn |-> 0]

CtrlIdle ==
    CtrlInit(0, <<>>)

\* controller.rs:55-66, the closure up to the first serial.write: a slot
\* that is not ready gets its entry, a ready slot is selected and the probe
\* is serialized.
CtrlCheck ==
    /\ ctrl.pc = "check"
    /\ ctrl.idx < ctrl.n
    /\ IF ~ctrl.ready[ctrl.idx + 1]
       THEN ctrl' = [ctrl EXCEPT
                        !.extensions = Append(@, [id |-> ctrl.idx % 256,
                                                  initialized |-> FALSE]),
                        !.idx = @ + 1]
       ELSE ctrl' = [ctrl EXCEPT
                        !.pc = "probe",
                        !.selects = Append(@, ctrl.idx),
                        !.byte = 1, !.out = <<>>, !.okAt = 0, !.wr = "none"]
    /\ UNCHANGED ctrlOthers

\* controller.rs:67-76, one call of serial.write.  After Ok the loop calls
\* serial.write with the same byte again; okAt counts the successful
\* writes of the byte up to MaxRepeat, and out keeps that many bytes; turn
\* is the parity of the calls.
CtrlWrite(result) ==
    /\ ctrl.pc = "probe"
    /\ CASE result = "Ok" ->
                ctrl' = [ctrl EXCEPT
                            !.turn = 1 - @,
                            !.out = IF ctrl.okAt < MaxRepeat
                                    THEN Append(@, Packet_serialize(init_probe)[ctrl.byte])
                                    ELSE @,
                            !.okAt = Min(@ + 1, MaxRepeat),
                            !.wr = "Ok"]
         [] result = "WouldBlock" ->
                ctrl' = [ctrl EXCEPT !.turn = 1 - @, !.wr = "WouldBlock"]
         [] OTHER -> ctrl' = [ctrl EXCEPT !.pc = "panicked", !.wr = "Other"]
    /\ UNCHANGED ctrlOthers

\* controller.rs:99-104, from_fn has run the closure for every slot.
CtrlReturn ==
    /\ ctrl.pc = "check"
    /\ ctrl.idx = ctrl.n
    /\ ctrl' = [ctrl EXCEPT !.pc = "done"]
    /\ UNCHANGED ctrlOthers

(***************************************************************************)
(*                      THE CODEC ON ITS OWN                               *)
(* Packet::serialize applied to a packet, and Packet::deserialize applied  *)
(* to the frame it made or to a frame that came from elsewhere.            *)
(***************************************************************************)

\* The longest name a Configure payload holds: 253 bytes less the
\* discriminator, the length byte and the two bytes of the value.
MaxName ==
    249

\* No packet, no frame, nothing decoded.
CodecInit(packet, frame) ==
    codec = [pc |-> IF packet # NoPacket THEN "packet"
                    ELSE IF frame # <<>> THEN "frame" ELSE "off",
             packet |-> packet, frame |-> frame, result |-> [res |-> "None"]]

\* packet.rs:271-286, Packet::serialize; "panicked" is the todo!() of
\* PacketData::serialize for the Error variant (packet.rs:155).
CodecSerialize ==
    /\ codec.pc = "packet"
    /\ codec' = IF codec.packet.data.kind = "Error"
                THEN [codec EXCEPT !.pc = "panicked"]
                ELSE [codec EXCEPT !.pc = "frame",
                                   !.frame = Packet_serialize(codec.packet)]
    /\ UNCHANGED codecOthers

\* packet.rs:245-268, Packet::deserialize.
CodecDeserialize ==
    /\ codec.pc = "frame"
    /\ codec' = [codec EXCEPT
                    !.result = Packet_deserialize(codec.frame),
                    !.pc = IF Packet_deserialize(codec.frame).res = "Panic"
                           THEN "panicked" ELSE "done"]
    /\ UNCHANGED codecOthers

(***************************************************************************)
(*                 DMA SERIAL TRANSMITTER AND LOGGING SINK                 *)
(* SerialTx::write and TxFuture::poll of stm32l432/serial.rs with the      *)
(* SerialNotifier, and run_backend of stm32l432/logging.rs as their        *)
(* caller.  A frame is named by the text copied to its start.  The DMA     *)
(* engine behind DmaTx (FrameSender of the hal) is the environment: it     *)
(* holds at most one buffer, may refuse to start a transfer, and answers   *)
(* transfer_complete with the buffer once the transfer has ended.  The     *)
(* logging queue is a FIFO behind QueueTx and QueueRx.                     *)
(***************************************************************************)

\* Messages the subscriber enqueues in one behaviour.
MaxMessages ==
    2

\* enum Message, and the text run_backend copies to the frame of each.
Messages ==
    {"NewSpan", "Enter", "Exit", "Record", "Event"}

FrameOf(msg) ==
    CASE msg = "NewSpan" -> "New-Span "
      [] msg = "Enter" -> "Enter "
      [] msg = "Exit" -> "Exit "
      [] msg = "Record" -> "Record "
      [] msg = "Event" -> "Event "

\* SerialTx::new and logger: the buffer is in tx_buffer, no future exists,
\* the engine is idle, the queue is empty.  `on` is FALSE where the
\* component is not part of the specification.
SerInit(on) ==
    /\ stx = [tx_buffer |-> TRUE, fut |-> "none", data |-> "",
              dma |-> [state |-> "idle", frame |-> ""],
              complete |-> FALSE, waker |-> FALSE,
              starts |-> 0, last |-> "none", selfWake |-> FALSE]
    /\ log = [pc |-> IF on THEN "start" ELSE "off", queue |-> <<>>,
              enqueued |-> 0, taken |-> <<>>, sent |-> <<>>]

\* serial.rs:318-334, SerialTx::write; "panicked" is the expect of line 320.
SerialTx_write(s, src) ==
    IF ~s.tx_buffer
    THEN [s EXCEPT !.fut = "panicked"]
    ELSE [s EXCEPT !.tx_buffer = FALSE, !.fut = "Initial", !.data = src,
                   !.starts = 0, !.last = "none", !.selfWake = FALSE]

\* Variant of poll_waiting: Ready without asking the engine.
poll_waiting_Early(s) ==
    [s EXCEPT !.fut = "Done", !.last = "Ready", !.selfWake = FALSE]

\* serial.rs:423-440, the SendAndWaiting branch of TxFuture::poll.
poll_waiting(s) ==
    IF s.dma.state = "complete"
    THEN [s EXCEPT !.dma = [state |-> "idle", frame |-> ""],
                   !.tx_buffer = TRUE,
                   !.fut = "Done", !.last = "Ready", !.selfWake = FALSE]
    ELSE [s EXCEPT !.last = "Pending", !.selfWake = TRUE]

\* serial.rs:393-446, TxFuture::poll; accept is what send_buffer answers
\* when the engine holds no buffer.
TxFuture_poll(s, accept) ==
    LET t == [s EXCEPT !.waker = TRUE]
    IN  CASE t.fut = "Initial" ->
                IF accept /\ t.dma.state = "idle"
                THEN [t EXCEPT !.complete = FALSE,
                               !.dma = [state |-> "busy", frame |-> t.data],
                               !.data = "", !.starts = @ + 1,
                               !.fut = "SendAndWaiting",
                               !.last = "Pending", !.selfWake = FALSE]
                ELSE [t EXCEPT !.complete = FALSE,
                               !.last = "Pending", !.selfWake = TRUE]
          [] t.fut = "SendAndWaiting" -> poll_waiting(t)
          [] t.fut = "Done" -> [t EXCEPT !.last = "Ready", !.selfWake = FALSE]

\* The transfer ends and the interrupt handler calls
\* SerialNotifier::transfer_complete (serial.rs:101-113).
DmaComplete ==
    /\ stx.dma.state = "busy"
    /\ stx' = [stx EXCEPT !.dma.state = "complete", !.complete = TRUE]
    /\ log' = [log EXCEPT !.sent = Append(@, stx.dma.frame)]
    /\ UNCHANGED serOthers

\* logging.rs:24-48, a method of the subscriber enqueues its message.
LogEnqueue(msg) ==
    /\ log.pc # "off"
    /\ log.enqueued < MaxMessages
    /\ log' = [log EXCEPT !.queue = Append(@, msg), !.enqueued = @ + 1]
    /\ UNCHANGED <<stx, serOthers>>

\* logging.rs:97-100, run_backend up to the first poll of the write of
\* "Starting Logging".
LogStart ==
    /\ log.pc = "start"
    /\ stx' = SerialTx_write(stx, "Starting Logging")
    /\ log' = [log EXCEPT !.pc = "await"]
    /\ UNCHANGED serOthers

\* logging.rs:100, a poll of the awaited future.
LogAwait(accept) ==
    /\ log.pc = "await"
    /\ stx' = TxFuture_poll(stx, accept)
    /\ log' = [log EXCEPT !.pc = IF stx'.last = "Ready" THEN "loop" ELSE "await"]
    /\ UNCHANGED serOthers

\* logging.rs:102-154, one turn of the loop: yield_now, try_dequeue, and
\* for a message serial.write(buffer), whose future is dropped unpolled at
\* the end of the statement, the buffer in it with it.
LogStep ==
    /\ log.pc = "loop"
    /\ IF log.queue = <<>>
       THEN UNCHANGED <<stx, log>>
       ELSE LET written == SerialTx_write(stx, FrameOf(Head(log.queue)))
            IN  /\ stx' = IF written.fut = "panicked" THEN written
                          ELSE [written EXCEPT !.fut = "none", !.data = ""]
                /\ log' = [log EXCEPT
                              !.queue = Tail(@),
                              !.taken = Append(@, Head(log.queue)),
                              !.pc = IF written.fut = "panicked"
                                     THEN "panicked" ELSE "loop"]
    /\ UNCHANGED serOthers

(***************************************************************************)
(*                             TIMER WHEEL                                 *)
(* TimerWheel<LevelOneWheel, SCALE> with its SlotStorage.  The width of    *)
(* the wheel is the length of LevelOneWheel::slots and the number of       *)
(* waker slots is the length of SlotStorage::wakers; both are fixed by     *)
(* the initial state.  SpecSolo checks the wheel at the width of the       *)
(* source (32) with one timer; SpecWheel checks the same operations at     *)
(* ReducedWidth with enough timers to fill every bucket and every slot.    *)
(***************************************************************************)

\* timer.rs:156  slots: [AtomicIsize; 32]; timer.rs:280  SlotStorage<32>
WheelWidth ==
    32

\* Width of the wheel (and size of the slot storage) in SpecWheel.
ReducedWidth ==
    3

\* Slot::state values (timer.rs:61, 101-120, 132, 249)
Free ==
    0
Reserving ==
    1
Armed ==
    2

Width ==
    Cardinality(DOMAIN wheel_slots)

Clients ==
    DOMAIN cl

\* timer.rs:321  for i in 0..31: one probe less than the wheel has buckets.
ProbeCount ==
    Width - 1

\* Variant: the division rounds down.
scale_ms_Floor(n, time) ==
    time \div n

\* ScaleGeneral::scale_ms (timer.rs:47-53)
scale_ms(n, time) ==
    IF time % n = 0 THEN time \div n ELSE (time \div n) + 1

\* A caller that has not called anything yet.
\*   kind     "unused", "handle" (add_ms called directly), "sleep", "dropped"
\*   res      what add_ms returned: "none" before the call, "Registered" or
\*            "Fired" (the TimerHandle held), "Full" or "OutOfRange" (no handle)
\*   slot     the slot a Registered handle refers to
\*   time     the ticks asked for (SleepMs::time)
\*   ms       the argument of sleep_ms
\*   lastPoll what the last poll of a SleepMs future returned
\*   elapsed  history: ticks since add_ms returned, up to the first wake
\*   woken    history: number of times the caller's waker was invoked (0, 1, 2+)
\*   pc       where the caller is inside add_ms when add_ms is taken one
\*            atomic step at a time: "idle" (not inside), "fired", "waker",
\*            "arm" (the store of add_waker that comes next), "load", "cas"
\*   i        the probe add_step is at
\*   cur      the value of current add_step loaded for that probe
NoClient ==
    [kind |-> "unused", res |-> "none", slot |-> -1, time |-> 0, ms |-> 0,
     lastPoll |-> "none", elapsed |-> 0, woken |-> 0,
     pc |-> "idle", i |-> 0, cur |-> 0]

\* TimerWheel::new (timer.rs:216-222), LevelOneWheel::new (185-193),
\* SlotStorage::new (82-90), Slot::new (67-73)
WheelInit(w, nclients, scales) ==
    /\ current = 0
    /\ wheel_slots = [b \in 0 .. (w - 1) |-> -1]
    /\ wakers = [i \in 0 .. (w - 1) |->
                   [state |-> Free, waker |-> 0, fired |-> FALSE]]
    /\ used_slots = 0
    /\ scale \in scales
    /\ wheel_pc = "run"
    /\ cl = [k \in 1 .. nclients |-> NoClient]
    /\ sched = "start"

\* The waker of caller k is invoked.
Woken(c, k) ==
    [c EXCEPT ![k].woken = Min(@ + 1, 2)]

\* Slots in state Free, lowest index first (timer.rs:100-103).
FreeSlots(ws) ==
    {i \in DOMAIN ws : ws[i].state = Free}

FirstFree(ws) ==
    CHOOSE i \in FreeSlots(ws) : \A j \in FreeSlots(ws) : i <= j

\* SlotStorage::add_waker (timer.rs:92-125).  Returns the outcome, the slot
\* index, the new storage and the new counter.  With usage < N and no Free
\* slot the loop at 99-124 never ends ("spin").
add_waker(ws, used, w) ==
    IF used >= Cardinality(DOMAIN ws)
    THEN [res |-> "Err", index |-> -1, wakers |-> ws, used |-> used]
    ELSE IF FreeSlots(ws) = {}
    THEN [res |-> "spin", index |-> -1, wakers |-> ws, used |-> used + 1]
    ELSE LET i == FirstFree(ws)
         IN  [res |-> "Ok", index |-> i,
              wakers |-> [ws EXCEPT ![i] = [state |-> Armed, waker |-> w,
                                            fired |-> FALSE]],
              used |-> used + 1]

\* Variant: taking the waker frees the slot.
take_slot_Free(ws, index) ==
    IF index \notin DOMAIN ws \/ ws[index].state # Armed
    THEN [some |-> FALSE, waker |-> 0, wakers |-> ws]
    ELSE LET taken == [ws EXCEPT ![index].state = Free,
                                 ![index].waker = 0]
         IN  [some |-> ws[index].waker # 0, waker |-> ws[index].waker,
              wakers |-> taken]

\* SlotStorage::take_slot (timer.rs:127-146): the slot goes Armed -> Reserving
\* and its waker is taken; None when the slot is not Armed or holds no waker.
take_slot(ws, index) ==
    IF index \notin DOMAIN ws \/ ws[index].state # Armed
    THEN [some |-> FALSE, waker |-> 0, wakers |-> ws]
    ELSE LET taken == [ws EXCEPT ![index].state = Reserving,
                                 ![index].waker = 0]
         IN  [some |-> ws[index].waker # 0, waker |-> ws[index].waker,
              wakers |-> taken]

\* Variant: the probe sequence starts one bucket further on.
ProbeBucket_OneLate(time, i) ==
    (current + time + i + 1) % Width

\* The probe sequence of add_step (timer.rs:321-323).
ProbeBucket(time, i) ==
    (current + time + i) % Width

\* Variant: the bucket is stored to, not compare-exchanged from -1.
FirstEmptyProbe_Overwrite(time) ==
    0

\* The first probe that finds an empty bucket, or -1 (timer.rs:321-341).
FirstEmptyProbe(time) ==
    LET hits == {i \in 0 .. (ProbeCount - 1) :
                    wheel_slots[ProbeBucket(time, i)] = -1}
    IN  IF hits = {} THEN -1
        ELSE CHOOSE i \in hits : \A j \in hits : i <= j

\* LevelOneWheel::add_step (timer.rs:309-344) for a time >= 1.
add_step(time, w) ==
    IF time >= Width
    THEN [res |-> "OutOfRange", slot |-> -1, wakers |-> wakers,
          used |-> used_slots, buckets |-> wheel_slots]
    ELSE LET a == add_waker(wakers, used_slots, w)
             p == FirstEmptyProbe(time)
         IN  IF a.res # "Ok"
             THEN [res |-> IF a.res = "Err" THEN "Full" ELSE "spin",
                   slot |-> -1, wakers |-> a.wakers, used |-> a.used,
                   buckets |-> wheel_slots]
             ELSE IF p = -1
             THEN [res |-> "Full", slot |-> -1, wakers |-> a.wakers,
                   used |-> a.used, buckets |-> wheel_slots]
             ELSE [res |-> "Registered", slot |-> a.index,
                   wakers |-> a.wakers, used |-> a.used,
                   buckets |-> [wheel_slots EXCEPT
                                   ![ProbeBucket(time, p)] = a.index]]

\* TimerWheel::add_ms (timer.rs:376-384): at time 0 the waker is woken at
\* once and the handle is Fired; otherwise add_step decides.
add_ms(time, w) ==
    IF time = 0
    THEN [res |-> "Fired", slot |-> -1, wakers |-> wakers,
          used |-> used_slots, buckets |-> wheel_slots]
    ELSE add_step(time, w)

\* The caller's side of a call of add_ms that returned r: what was returned
\* (a TimerHandle or an Err), and the wake of add_ms at time 0.
AfterAdd(k, time, kind, r) ==
    LET c == [cl EXCEPT ![k].kind = kind,
                        ![k].res = r.res,
                        ![k].slot = r.slot,
                        ![k].time = time]
    IN  IF r.res = "Fired" THEN Woken(c, k) ELSE c

\* The wheel after a call of add_ms that returned r.
WheelAfterAdd(r) ==
    /\ wakers' = r.wakers
    /\ used_slots' = r.used
    /\ wheel_slots' = r.buckets
    /\ wheel_pc' = IF r.res = "spin" THEN "spin" ELSE wheel_pc

\* Callers are taken in order: caller k acts once every caller below it has.
IsNext(k) ==
    /\ cl[k].kind = "unused"
    /\ \A j \in Clients : j < k => cl[j].kind # "unused"

\* add_ms(time, waker) called directly; the caller keeps the TimerHandle.
AddMs(k, time) ==
    /\ wheel_pc = "run"
    /\ IsNext(k)
    /\ LET r == add_ms(time, k)
       IN  /\ WheelAfterAdd(r)
           /\ cl' = AfterAdd(k, time, "handle", r)
    /\ UNCHANGED <<current, scale, sched>>
    /\ UNCHANGED timerOthers

\* TimerWheel::sleep_ms (timer.rs:451-457): a future, not yet polled.
SleepMs(k, ms) ==
    /\ wheel_pc = "run"
    /\ IsNext(k)
    /\ cl' = [cl EXCEPT ![k].kind = "sleep", ![k].ms = ms,
                        ![k].time = scale_ms(scale, ms)]
    /\ UNCHANGED <<current, wheel_slots, wakers, used_slots, scale, wheel_pc,
                   sched>>
    /\ UNCHANGED timerOthers

\* The value a poll of a future that holds a handle returns (timer.rs:482-491).
PollAnswer(c) ==
    IF c.res = "Fired" THEN "Ready"
    ELSE IF wakers[c.slot].fired THEN "Ready" ELSE "Pending"

\* SleepMs::poll (timer.rs:477-502).  A future is not polled after Ready.
SleepPoll(k) ==
    /\ wheel_pc = "run"
    /\ cl[k].kind = "sleep"
    /\ cl[k].lastPoll \notin {"Ready", "ReadyErr"}
    /\ IF cl[k].res = "none"
       THEN LET r == add_ms(cl[k].time, k)
            IN  /\ WheelAfterAdd(r)
                /\ cl' = [AfterAdd(k, cl[k].time, "sleep", r) EXCEPT
                            ![k].lastPoll = IF r.res \in {"Registered", "Fired"}
                                            THEN "Pending" ELSE "ReadyErr"]
       ELSE /\ cl' = [cl EXCEPT ![k].lastPoll = PollAnswer(cl[k])]
            /\ UNCHANGED <<wakers, used_slots, wheel_slots, wheel_pc>>
    /\ sched' = IF sched \in {"start", "ticked"} THEN "polled" ELSE "free"
    /\ UNCHANGED <<current, scale>>
    /\ UNCHANGED timerOthers

\* The first poll of a SleepMs future up to the first atomic step of
\* add_waker that the tick interrupt can tell apart (timer.rs:492-496,
\* 376-384, 315-319, 92-112): at time 0 the waker is woken and the handle is
\* Fired; a time of the wheel's width or more is OutOfRange; a full storage
\* is Full; otherwise the first Free slot is taken to Reserving.  The main
\* context is inside add_ms from here until pc is "idle" again.
PollBegin(k) ==
    /\ wheel_pc = "run"
    /\ \A j \in Clients : cl[j].pc = "idle"
    /\ cl[k].kind = "sleep" /\ cl[k].res = "none"
    /\ cl[k].lastPoll = "none"
    /\ LET time == cl[k].time
           failed(res) == [cl EXCEPT ![k].res = res, ![k].lastPoll = "ReadyErr"]
       IN  IF time = 0
           THEN /\ cl' = Woken([cl EXCEPT ![k].res = "Fired",
                                          ![k].lastPoll = "Pending"], k)
                /\ UNCHANGED <<wakers, used_slots, wheel_pc>>
           ELSE IF time >= Width
           THEN /\ cl' = failed("OutOfRange")
                /\ UNCHANGED <<wakers, used_slots, wheel_pc>>
           ELSE IF used_slots >= Cardinality(DOMAIN wakers)
           THEN /\ cl' = failed("Full")
                /\ UNCHANGED <<wakers, used_slots, wheel_pc>>
           ELSE IF FreeSlots(wakers) = {}
           THEN /\ wheel_pc' = "spin"
                /\ used_slots' = used_slots + 1
                /\ UNCHANGED <<wakers, cl>>
           ELSE /\ wakers' = [wakers EXCEPT ![FirstFree(wakers)].state = Reserving]
                /\ used_slots' = used_slots + 1
                /\ cl' = [cl EXCEPT ![k].pc = "fired",
                                    ![k].slot = FirstFree(wakers)]
                /\ wheel_pc' = wheel_pc
    /\ UNCHANGED <<current, wheel_slots, scale, sched>>
    /\ UNCHANGED timerOthers

\* timer.rs:114-120, the three stores of add_waker to the slot it reserved,
\* one in a step: fired, the waker, the state.
AddStore(k) ==
    /\ wheel_pc = "run"
    /\ cl[k].pc \in {"fired", "waker", "arm"}
    /\ CASE cl[k].pc = "fired" ->
                /\ wakers' = [wakers EXCEPT ![cl[k].slot].fired = FALSE]
                /\ cl' = [cl EXCEPT ![k].pc = "waker"]
         [] cl[k].pc = "waker" ->
                /\ wakers' = [wakers EXCEPT ![cl[k].slot].waker = k]
                /\ cl' = [cl EXCEPT ![k].pc = "arm"]
         [] cl[k].pc = "arm" ->
                /\ wakers' = [wakers EXCEPT ![cl[k].slot].state = Armed]
                /\ cl' = [cl EXCEPT ![k].pc = "load", ![k].i = 0]
    /\ UNCHANGED <<current, wheel_slots, used_slots, scale, wheel_pc, sched>>
    /\ UNCHANGED timerOthers

\* timer.rs:322-323, the load of current for probe i.
AddLoad(k) ==
    /\ wheel_pc = "run"
    /\ cl[k].pc = "load"
    /\ cl' = [cl EXCEPT ![k].pc = "cas", ![k].cur = current]
    /\ UNCHANGED <<current, wheel_slots, wakers, used_slots, scale, wheel_pc,
                   sched>>
    /\ UNCHANGED timerOthers

\* timer.rs:325-342 and 497-499: the compare_exchange of the bucket of
\* probe i; on success add_ms returns Registered and the poll Pending, after
\* the last probe add_ms returns Full and the poll Ready(Err).
AddCas(k) ==
    /\ wheel_pc = "run"
    /\ cl[k].pc = "cas"
    /\ LET slot_index == (cl[k].cur + cl[k].time + cl[k].i) % Width
       IN  IF wheel_slots[slot_index] = -1
           THEN /\ wheel_slots' = [wheel_slots EXCEPT ![slot_index] = cl[k].slot]
                /\ cl' = [cl EXCEPT ![k].pc = "idle", ![k].res = "Registered",
                                    ![k].lastPoll = "Pending"]
           ELSE /\ wheel_slots' = wheel_slots
                /\ cl' = IF cl[k].i + 1 < ProbeCount
                         THEN [cl EXCEPT ![k].pc = "load", ![k].i = @ + 1]
                         ELSE [cl EXCEPT ![k].pc = "idle", ![k].res = "Full",
                                         ![k].slot = -1,
                                         ![k].lastPoll = "ReadyErr"]
    /\ UNCHANGED <<current, wakers, used_slots, scale, wheel_pc, sched>>
    /\ UNCHANGED timerOthers

\* History: one more tick since each registration whose waker is still to
\* be woken (the count stops one wheel turn after the time asked for).
Ticked(c) ==
    [k \in DOMAIN c |->
        IF c[k].res = "Registered" /\ c[k].woken = 0
        THEN [c[k] EXCEPT !.elapsed = Min(@ + 1, c[k].time + Width)]
        ELSE c[k]]

\* Variant: tick wakes the waker and leaves the fired flag as it is.
tick_WakeOnly ==
    /\ wheel_pc = "run"
    /\ LET index == (current + 1) % Width
           waker_index == wheel_slots[index]
           t == take_slot(wakers, waker_index)
       IN  /\ current' = index
           /\ IF waker_index < 0
              THEN /\ cl' = Ticked(cl)
                   /\ UNCHANGED <<wheel_slots, wakers, wheel_pc>>
              ELSE /\ wheel_slots' = [wheel_slots EXCEPT ![index] = -1]
                   /\ wakers' = t.wakers
                   /\ cl' = IF t.some THEN Woken(Ticked(cl), t.waker)
                                      ELSE Ticked(cl)
                   /\ wheel_pc' = IF t.some THEN wheel_pc ELSE "panicked"
    /\ sched' = IF sched = "polled" THEN "ticked" ELSE "free"
    /\ UNCHANGED <<used_slots, scale>>
    /\ UNCHANGED timerOthers

\* LevelOneWheel::tick (timer.rs:282-308), called by TimerWheel::tick (368-370).
\* take_slot(..).unwrap() panics when the slot is not Armed.
tick ==
    /\ wheel_pc = "run"
    /\ LET index == (current + 1) % Width
           waker_index == wheel_slots[index]
           t == take_slot(wakers, waker_index)
       IN  /\ current' = index
           /\ IF waker_index < 0
              THEN /\ cl' = Ticked(cl)
                   /\ UNCHANGED <<wheel_slots, wakers, wheel_pc>>
              ELSE /\ wheel_slots' = [wheel_slots EXCEPT ![index] = -1]
                   /\ IF t.some
                      THEN /\ wakers' = [t.wakers EXCEPT
                                            ![waker_index].fired = TRUE]
                           /\ cl' = Woken(Ticked(cl), t.waker)
                           /\ wheel_pc' = wheel_pc
                      ELSE /\ wakers' = t.wakers
                           /\ cl' = Ticked(cl)
                           /\ wheel_pc' = "panicked"
    /\ sched' = IF sched = "polled" THEN "ticked" ELSE "free"
    /\ UNCHANGED <<used_slots, scale>>
    /\ UNCHANGED timerOthers

\* What is left of a caller whose handle or future has been dropped.
Dropped ==
    [NoClient EXCEPT !.kind = "dropped"]

\* TimerHandle::drop (timer.rs:245-257), also run when a SleepMs future that
\* holds a handle is dropped.  A caller whose add_ms returned Err holds none.
DropHandle(k) ==
    /\ wheel_pc = "run"
    /\ cl[k].kind \in {"handle", "sleep"}
    /\ cl[k].res \in {"none", "Registered", "Fired"}
    /\ IF cl[k].res = "Registered"
       THEN /\ wakers' = [wakers EXCEPT ![cl[k].slot].state = Free,
                                        ![cl[k].slot].fired = FALSE]
            /\ used_slots' = used_slots - 1
       ELSE UNCHANGED <<wakers, used_slots>>
    /\ cl' = [cl EXCEPT ![k] = Dropped]
    /\ UNCHANGED <<current, wheel_slots, scale, wheel_pc, sched>>
    /\ UNCHANGED timerOthers

\* No timer wheel: the state of the timer variables in the other components'
\* specifications.
WheelIdle ==
    WheelInit(1, 0, {1})

\* Milliseconds passed to sleep_ms in SpecSolo.
SoloMs ==
    {0, 1, 2, 9, 10, 11, 250, 310, 311, 320}

\* One caller on a wheel of the width of the source.
InitSolo ==
    ExecInit /\ ProtoIdle /\ CtrlIdle /\ SerInit(FALSE) /\ CodecInit(NoPacket, <<>>) /\ WheelInit(WheelWidth, 1, {1, 10}) /\ AllocIdle /\ QueueIdle

NextSolo ==
    \/ \E k \in Clients : \E time \in 0 .. (Width + 1) : AddMs(k, time)
    \/ \E k \in Clients : \E ms \in SoloMs : SleepMs(k, ms)
    \/ \E k \in Clients : SleepPoll(k)
    \/ \E k \in Clients : DropHandle(k)
    \/ tick

SpecSolo ==
    InitSolo /\ [][NextSolo]_vars

\* As many callers of add_ms as the wheel has buckets, any of whom may drop
\* the handle at any time: enough to occupy every bucket.
InitWheel ==
    ExecInit /\ ProtoIdle /\ CtrlIdle /\ SerInit(FALSE) /\ CodecInit(NoPacket, <<>>) /\ WheelInit(ReducedWidth, ReducedWidth, {1}) /\ AllocIdle
    /\ QueueIdle

NextWheel ==
    \/ \E k \in Clients : \E time \in 0 .. Width : AddMs(k, time)
    \/ \E k \in Clients : DropHandle(k)
    \/ tick

SpecWheel ==
    InitWheel /\ [][NextWheel]_vars

\* Sleep futures in SpecIrq.
NumSleepers ==
    2

\* Sleep futures polled in the main context, where add_ms advances one
\* atomic step at a time, and tick as the interrupt that runs between any
\* two of those steps.
InitIrq ==
    /\ ExecInit /\ ProtoIdle /\ CtrlIdle /\ SerInit(FALSE)
    /\ CodecInit(NoPacket, <<>>) /\ AllocIdle /\ QueueIdle
    /\ WheelInit(ReducedWidth, NumSleepers, {1})

NextIrq ==
    \/ \E k \in Clients : \E ms \in 0 .. Width :
            (\A j \in Clients : cl[j].pc = "idle") /\ SleepMs(k, ms)
    \/ \E k \in Clients : PollBegin(k)
    \/ \E k \in Clients : AddStore(k)
    \/ \E k \in Clients : AddLoad(k)
    \/ \E k \in Clients : AddCas(k)
    \/ \E k \in Clients :
            /\ \A j \in Clients : cl[j].pc = "idle"
            /\ cl[k].res # "none"
            /\ SleepPoll(k)
    \/ \E k \in Clients :
            (\A j \in Clients : cl[j].pc = "idle") /\ DropHandle(k)
    \/ tick

SpecIrq ==
    InitIrq /\ [][NextIrq]_vars

InitExec ==
    ExecInit /\ ProtoIdle /\ CtrlIdle /\ SerInit(FALSE) /\ CodecInit(NoPacket, <<>>) /\ WheelIdle /\ AllocIdle /\ QueueIdle

SpecExec ==
    InitExec /\ [][NextExec]_vars

\* The main context is never suspended for ever: interrupts return.
SpecExecFair ==
    InitExec /\ [][NextExec]_vars /\ WF_vars(RunStep)

\* Threads calling allocate and deallocate on one allocator.
InitAlloc ==
    ExecInit /\ ProtoIdle /\ CtrlIdle /\ SerInit(FALSE) /\ CodecInit(NoPacket, <<>>) /\ WheelIdle /\ AllocInit(NumBlocks, NumThreads) /\ QueueIdle

NextAlloc ==
    \/ \E t \in Threads : AllocCall(t)
    \/ \E t \in Threads : AllocLoad(t)
    \/ \E t \in Threads : \E v \in Ptrs : AllocRead(t, v)
    \/ \E t \in Threads : AllocCas(t)
    \/ \E t \in Threads : \E b \in Blocks : DeallocCall(t, b)
    \/ \E t \in Threads : DeallocLoad(t)
    \/ \E t \in Threads : DeallocWrite(t)
    \/ \E t \in Threads : DeallocCas(t)

SpecAlloc ==
    InitAlloc /\ [][NextAlloc]_vars

\* No thread is inside allocate or deallocate.
NoCallRunning ==
    \A t \in Threads : th[t].pc \in {"idle", "panicked"}

\* Calls one after the other: a call starts only when no call is running
\* (tests::exhaustive_allocations, allocator.rs:146-162).
NextAllocSeq ==
    \/ \E t \in Threads : NoCallRunning /\ AllocCall(t)
    \/ \E t \in Threads : AllocLoad(t)
    \/ \E t \in Threads : \E v \in Ptrs : AllocRead(t, v)
    \/ \E t \in Threads : AllocCas(t)
    \/ \E t \in Threads : \E b \in Blocks : NoCallRunning /\ DeallocCall(t, b)
    \/ \E t \in Threads : DeallocLoad(t)
    \/ \E t \in Threads : DeallocWrite(t)
    \/ \E t \in Threads : DeallocCas(t)

SpecAllocSeq ==
    InitAlloc /\ [][NextAllocSeq]_vars

\* Blocks of the largest arena of SpecAllocOnly.
MaxArena ==
    3

\* Allocations only, by threads that interleave, over an arena of each
\* number of blocks from one to MaxArena (tests::over_allocation,
\* allocator.rs:164-184).  new is only defined for a region that holds a
\* block: it writes the null link of the last block at end - size.
InitAllocOnly ==
    /\ ExecInit /\ ProtoIdle /\ CtrlIdle /\ SerInit(FALSE)
    /\ CodecInit(NoPacket, <<>>) /\ WheelIdle /\ QueueIdle
    /\ \E k \in 1 .. MaxArena : AllocInit(k, NumThreads)

NextAllocOnly ==
    \/ \E t \in Threads : AllocCall(t)
    \/ \E t \in Threads : AllocLoad(t)
    \/ \E t \in Threads : \E v \in Ptrs : AllocRead(t, v)
    \/ \E t \in Threads : AllocCas(t)

SpecAllocOnly ==
    InitAllocOnly /\ [][NextAllocOnly]_vars

\* Segments of memory the allocator can hand out in SpecQueue.
QueueSegments ==
    4

\* Threads sharing the Tx in SpecQueue.
NumProducers ==
    2

\* Producer threads and the consumer, every step interleaved.
NextQueue ==
    \/ \E p \in Producers : TxCall(p)
    \/ \E p \in Producers : TxLoadTail(p)
    \/ \E p \in Producers : TxFetchAdd(p)
    \/ \E p \in Producers : TxStoreWriting(p)
    \/ \E p \in Producers : TxStoreReady(p)
    \/ \E p \in Producers : TxLoadNext(p)
    \/ \E p \in Producers : TxAllocate(p)
    \/ \E p \in Producers : TxCasNext(p)
    \/ \E p \in Producers : TxRefNext(p)
    \/ \E p \in Producers : TxCasTail(p)
    \/ \E p \in Producers : TxUndoRef(p)
    \/ \E p \in Producers : TxUnrefOld(p)
    \/ TxDrop
    \/ RxCall
    \/ RxScan
    \/ RxLoadNext
    \/ RxCheck
    \/ RxDrop
    \/ RxDropLoad
    \/ RxDropFree

InitQueue ==
    /\ ExecInit /\ ProtoIdle /\ CtrlIdle /\ SerInit(FALSE) /\ CodecInit(NoPacket, <<>>) /\ WheelIdle /\ AllocIdle
    /\ QueueInit(ReducedSegment, NumProducers, QueueSegments, ItemsEach)

SpecQueue ==
    InitQueue /\ [][NextQueue]_vars

\* Items the one producer enqueues in SpecQueueSolo: more than a segment holds.
SoloItems ==
    6

\* Segments of memory the allocator can hand out in SpecQueueSolo.
SoloSegments ==
    3

\* One producer thread and the consumer on segments of the size of the
\* source.
InitQueueSolo ==
    /\ ExecInit /\ ProtoIdle /\ CtrlIdle /\ SerInit(FALSE) /\ CodecInit(NoPacket, <<>>) /\ WheelIdle /\ AllocIdle
    /\ QueueInit(SegmentSize, 1, SoloSegments, SoloItems)

\* With one producer thread the compare_exchange of the tail never fails,
\* so the undo of queue.rs:185-187 is no step of this specification.
NextQueueSolo ==
    \/ \E p \in Producers : TxCall(p)
    \/ \E p \in Producers : TxLoadTail(p)
    \/ \E p \in Producers : TxFetchAdd(p)
    \/ \E p \in Producers : TxStoreWriting(p)
    \/ \E p \in Producers : TxStoreReady(p)
    \/ \E p \in Producers : TxLoadNext(p)
    \/ \E p \in Producers : TxAllocate(p)
    \/ \E p \in Producers : TxCasNext(p)
    \/ \E p \in Producers : TxRefNext(p)
    \/ \E p \in Producers : TxCasTail(p)
    \/ \E p \in Producers : TxUnrefOld(p)
    \/ TxDrop
    \/ RxCall
    \/ RxScan
    \/ RxLoadNext
    \/ RxCheck
    \/ RxDrop
    \/ RxDropLoad
    \/ RxDropFree

SpecQueueSolo ==
    InitQueueSolo /\ [][NextQueueSolo]_vars

\* What a pin read, a serial read and a serial write can answer.
PinLevels ==
    {"High", "Low", "Err"}

WriteResults ==
    {"Ok", "WouldBlock", "Other"}

\* One extension board on the bus, from before init to the end of run.
InitProto ==
    /\ ExecInit /\ WheelIdle /\ AllocIdle /\ QueueIdle /\ CtrlIdle
    /\ SerInit(FALSE) /\ CodecInit(NoPacket, <<>>)
    /\ \E options \in OptionLists : ProtoInit(options)

NextProto ==
    \/ \E result \in {"Ok", "Err"} : InitRaise(result)
    \/ \E read \in {"Ok", "Other"} : \E buffer \in Bus : \E sel \in PinLevels :
            InitRead(read, buffer, sel)
    \/ \E result \in WriteResults : ProbeWrite(result)
    \/ \E result \in WriteResults : AckWrite(result)
    \/ \E buffer \in Bus : \E sel \in PinLevels : \E sampled \in MetricLists :
            RunRead(buffer, sel, sampled)
    \/ RunWrite

SpecProto ==
    InitProto /\ [][NextProto]_vars

\* Controller::init for every number of slots up to MaxSlots and every
\* pattern of ready slots.
InitCtrl ==
    /\ ExecInit /\ WheelIdle /\ AllocIdle /\ QueueIdle /\ ProtoIdle
    /\ SerInit(FALSE) /\ CodecInit(NoPacket, <<>>)
    /\ \E n \in 0 .. MaxSlots : \E pattern \in [1 .. n -> BOOLEAN] :
            CtrlInit(n, pattern)

NextCtrl ==
    \/ CtrlCheck
    \/ \E result \in WriteResults : CtrlWrite(result)
    \/ CtrlReturn

\* init is not suspended for ever: the processor keeps running it.
SpecCtrl ==
    InitCtrl /\ [][NextCtrl]_vars /\ WF_vars(NextCtrl)

\* The logging backend on the DMA transmitter, with the subscriber
\* enqueueing up to MaxMessages messages.
InitLog ==
    /\ ExecInit /\ WheelIdle /\ AllocIdle /\ QueueIdle /\ ProtoIdle /\ CtrlIdle
    /\ SerInit(TRUE) /\ CodecInit(NoPacket, <<>>)

NextLog ==
    \/ \E msg \in Messages : LogEnqueue(msg)
    \/ LogStart
    \/ \E accept \in BOOLEAN : LogAwait(accept)
    \/ LogStep
    \/ DmaComplete

SpecLog ==
    InitLog /\ [][NextLog]_vars

\* The codec applied to every packet of a set that has each variant with
\* its extreme operands, and to frames made of every discriminator up to 11
\* and 255 followed by three bytes that are lengths, counts, type tags,
\* name bytes or operands according to the variant, and a Configure frame
\* whose name is longer than the payload.
InitCodec ==
    /\ ExecInit /\ WheelIdle /\ AllocIdle /\ QueueIdle /\ ProtoIdle /\ CtrlIdle
    /\ SerInit(FALSE)
    /\ LET names == {<<>>, <<116>>, [i \in 1 .. MaxName |-> 97]}
           values == {[tag |-> "Switch", state |-> b] : b \in BOOLEAN}
                        \cup {[tag |-> "Pwm", percent |-> n] : n \in {0, 255}}
           points == {[name |-> <<116>>, value |-> v] : v \in values}
           options == {[name |-> <<116>>, ty |-> t] : t \in {"Switch", "Pwm"}}
           data ==
              {[kind |-> k] : k \in {"InitProbe", "Acknowledge", "Error", "Restart",
                                     "Metrics", "ConfigureOptions"}}
                 \cup {[kind |-> "InitProbeResponse", status |-> FALSE, id |-> <<>>]}
                 \cup {[kind |-> "InitProbeResponse", status |-> TRUE, id |-> <<n>>] :
                          n \in {0, 255}}
                 \cup {[kind |-> "Init", id |-> n] : n \in {0, 13, 255}}
                 \cup {[kind |-> "Configure", option |-> [name |-> n, value |-> v]] :
                          n \in names, v \in values}
                 \cup {[kind |-> "MetricsResponse", metrics |-> Fixed(l)] :
                          l \in MetricLists \cup {<<p, q>> : p, q \in points}}
                 \cup {[kind |-> "ConfigureOptionsResponse", options |-> Fixed(l)] :
                          l \in OptionLists \cup {<<p, q>> : p, q \in options}}
       IN  \/ \E r \in {Controller, Everyone, ID(1), ID(254)}, d \in data :
                CodecInit([protocol_version |-> VERSION, receiver |-> r, data |-> d],
                          <<>>)
           \/ \E v \in {0, 1}, r \in {0, 13, 255}, n \in 0 .. 11 \cup {255},
                 a \in {0, 1, 2}, b \in {0, 1, 116, 200, 253}, c \in {0, 1, 2} :
                CodecInit(NoPacket, Pad(<<v, r, n, a, b, c>>, FrameLen))
           \/ \E r \in {0, 13, 255} :
                CodecInit(NoPacket, Pad(<<VERSION, r, 6, 253>>, FrameLen))

NextCodec ==
    \/ CodecSerialize
    \/ CodecDeserialize

SpecCodec ==
    InitCodec /\ [][NextCodec]_vars

(***************************************************************************)
(*                        CLAIMS: EXECUTOR                                 *)
(***************************************************************************)

\* C1 (as stated): whenever the waker of a task that is not yet done has been
\* invoked and no poll of that task has begun since, no other task has been
\* polled twice since that wake.
C1_Original ==
    \A t \in Tasks : \A u \in Tasks \ {t} :
        owed[t] => seen[t][u] <= 1

\* C1 (amended): a wake of a task that does not finish in the poll that is in
\* progress when the wake arrives is followed by a poll of that task, and that
\* poll begins before any other task has been polled twice.
C1_WakeNotLost ==
    /\ [](\A t \in Tasks : \A u \in Tasks \ {t} :
            (owed[t] /\ ~done[t]) => seen[t][u] <= 1)
    /\ \A t \in Tasks : (owed[t] /\ ~done[t]) ~> (~owed[t] \/ done[t])

\* A woken task is about to be polled after another task was polled once.
C1_Witness ==
    \E t \in Tasks : \E u \in Tasks \ {t} :
        /\ owed[t] /\ ~done[t]
        /\ seen[t][u] = 1
        /\ run_pc = "call" /\ id = t

\* C2: a task one of whose polls returned Ready is never being polled.
C2_NoPollAfterReady ==
    \A t \in Tasks :
        (run_pc \in {"clear", "call", "polling"} /\ id = t) => ~returnedReady[t]

\* The pass reaches the slot of a finished task whose waker ran afterwards.
C2_Witness ==
    \E t \in Tasks :
        /\ returnedReady[t] /\ ready[t]
        /\ run_pc = "check" /\ id = t /\ pass = 2

\* C3: a slot is polled only when it was not done and its wake-bit was TRUE,
\* the bit is FALSE when the poll begins unless a waker ran since the clear,
\* the first pass polls every task exactly once, and a task is polled at most
\* once more than its waker was invoked.
C3_PollOnlyWoken ==
    /\ run_pc = "clear" => (ready[id] /\ ~done[id])
    /\ run_pc \in {"call", "polling"} =>
          (~done[id] /\ (~ready[id] \/ wokenSinceClear[id]))
    /\ pass = 1 =>
          \A t \in Tasks :
              polls[t] = IF \/ t < id
                            \/ (t = id /\ run_pc = "polling")
                         THEN 1 ELSE 0
    /\ \A t \in Tasks : polls[t] <= 1 + wakes[t]

\* A task that returned Pending and was never woken is passed over.
C3_Witness ==
    \E t \in Tasks :
        /\ polls[t] = 1 /\ wakes[t] = 0 /\ ~done[t] /\ ~ready[t]
        /\ pass = 2 /\ id > t

(***************************************************************************)
(*                        CLAIMS: TIMER WHEEL                              *)
(***************************************************************************)

\* A caller whose waker is woken exactly once, by the n-th tick after add_ms
\* returned and by no earlier one (elapsed stops counting at the first wake).
WokenExactlyAt(c, n) ==
    \/ c.woken = 0 /\ c.elapsed < n
    \/ c.woken = 1 /\ c.elapsed = n

\* C4 (as stated): with no other timer, add_ms for t ticks, 1 <= t <= width,
\* is accepted and its waker is woken during exactly the t-th tick, once.
C4_Original ==
    \A k \in Clients :
        (cl[k].kind = "handle" /\ cl[k].time \in 1 .. Width) =>
            /\ cl[k].res = "Registered"
            /\ WokenExactlyAt(cl[k], cl[k].time)

\* C4 (amended): with no other timer, add_ms for t ticks, 1 <= t <= width - 1,
\* is accepted and its waker is woken during exactly the t-th tick, once;
\* t = width is refused with OutOfRange.
C4_WokenAtExactTick ==
    \A k \in Clients :
        /\ (cl[k].kind = "handle" /\ cl[k].time \in 1 .. (Width - 1)) =>
              /\ cl[k].res = "Registered"
              /\ WokenExactlyAt(cl[k], cl[k].time)
        /\ (cl[k].kind = "handle" /\ cl[k].time = Width) =>
              /\ cl[k].res = "OutOfRange"
              /\ cl[k].woken = 0

\* The longest accepted timer has been woken, by its 31st tick.
C4_Witness ==
    \E k \in Clients :
        /\ cl[k].kind = "handle" /\ cl[k].res = "Registered"
        /\ cl[k].time = WheelWidth - 1
        /\ cl[k].woken = 1 /\ cl[k].elapsed = WheelWidth - 1

\* ceil(ms / S)
Ceil(ms, S) ==
    (ms + S - 1) \div S

\* What the claim says a poll of future k returns: Pending on the first poll
\* and before the n-th tick, Ready afterwards.
ClaimedPoll(c, n) ==
    IF c.res = "none" THEN "Pending"
    ELSE IF c.elapsed >= n THEN "Ready" ELSE "Pending"

\* C5 (as stated): every sleep_ms(ms) future returns Pending on its first poll
\* and on every poll before the ceil(ms/S)-th tick, Ready on the first poll
\* after it, and its waker is woken exactly once, by that tick.
C5_Original ==
    /\ [][\A k \in Clients :
            SleepPoll(k) =>
                cl'[k].lastPoll = ClaimedPoll(cl[k], Ceil(cl[k].ms, scale))]_vars
    /\ [](\A k \in Clients :
            (cl[k].kind = "sleep" /\ cl[k].res # "none") =>
                WokenExactlyAt(cl[k], Ceil(cl[k].ms, scale)))

\* C5 (amended): the same for the futures with 1 <= ceil(ms/S) <= width - 1
\* on a wheel with no other timer.
C5_SleepReadyAfterTicks ==
    /\ [][\A k \in Clients :
            (SleepPoll(k) /\ Ceil(cl[k].ms, scale) \in 1 .. (Width - 1)) =>
                cl'[k].lastPoll = ClaimedPoll(cl[k], Ceil(cl[k].ms, scale))]_vars
    /\ [](\A k \in Clients :
            (/\ cl[k].kind = "sleep" /\ cl[k].res # "none"
             /\ Ceil(cl[k].ms, scale) \in 1 .. (Width - 1)) =>
                WokenExactlyAt(cl[k], Ceil(cl[k].ms, scale)))

\* sleep_ms(250) at Scale10Ms, polled once before each tick: the poll after
\* the 25th tick has returned Ready and the waker was woken once.
C5_Witness ==
    \E k \in Clients :
        /\ cl[k].kind = "sleep" /\ cl[k].ms = 250 /\ scale = 10
        /\ sched = "polled"
        /\ cl[k].lastPoll = "Ready"
        /\ cl[k].elapsed = 25 /\ cl[k].woken = 1

\* C6: a timer accepted for t ticks whose handle is held has been woken once
\* the (t + width - 1)-th tick after its registration is over.
C6_LatenessBounded ==
    \A k \in Clients :
        (cl[k].res = "Registered" /\ cl[k].woken = 0) =>
            cl[k].elapsed < cl[k].time + Width - 1

\* A timer that found its bucket occupied was woken later than asked.
C6_Witness ==
    \E k \in Clients :
        /\ cl[k].res = "Registered" /\ cl[k].woken = 1
        /\ cl[k].elapsed > cl[k].time

\* C7: no two buckets hold the index of the same slot.
C7_Original ==
    \A b1 \in DOMAIN wheel_slots : \A b2 \in DOMAIN wheel_slots :
        (b1 # b2 /\ wheel_slots[b1] >= 0) => wheel_slots[b1] # wheel_slots[b2]

\* Some caller still holds a Registered handle.
HandleHeld ==
    \E k \in Clients : cl[k].res = "Registered"

\* C8: dropping a Registered handle frees its slot, clears the fired flag and
\* takes one off the counter; dropping a Fired handle changes nothing; with
\* every handle dropped the counter is 0.
C8_Original ==
    /\ [][\A k \in Clients :
            DropHandle(k) =>
                IF cl[k].res = "Registered"
                THEN /\ wakers'[cl[k].slot].state = Free
                     /\ ~wakers'[cl[k].slot].fired
                     /\ used_slots' = used_slots - 1
                ELSE UNCHANGED <<wakers, used_slots, wheel_slots>>]_vars
    /\ [](~HandleHeld => used_slots = 0)

\* add_ms returned an Err to caller k.
Rejected(c) ==
    c.res \in {"Full", "OutOfRange"}

\* C9: a rejected add_ms leaves the counter, every slot state and every
\* bucket as they were, and the waker passed to it is never woken.
C9_Original ==
    /\ [][\A k \in Clients :
            (~Rejected(cl[k]) /\ Rejected(cl'[k])) =>
                /\ used_slots' = used_slots
                /\ \A i \in DOMAIN wakers : wakers'[i].state = wakers[i].state
                /\ wheel_slots' = wheel_slots]_vars
    /\ [](\A k \in Clients : Rejected(cl[k]) => cl[k].woken = 0)

(***************************************************************************)
(*                        CLAIMS: BLOCK ALLOCATOR                          *)
(***************************************************************************)

\* The list from pointer p on is a null-terminated chain of blocks, none of
\* them in the set visited and none of them owned by a caller.
RECURSIVE FreeChain(_, _)
FreeChain(p, visited) ==
    IF p = 0 THEN TRUE
    ELSE IF p \in visited \/ Owned(p) THEN FALSE
    ELSE FreeChain(link[p], visited \cup {p})

\* C10: under every interleaving no block is owned by two callers, and the
\* free list is a null-terminated chain of pairwise distinct free blocks.
C10_Original ==
    /\ \A t \in Threads : \A u \in Threads \ {t} :
          th[t].owned \cap th[u].owned = {}
    /\ FreeChain(head, {})

\* The blocks on the list from pointer p on (the walk stops at a block it
\* has visited).
RECURSIVE ChainBlocks(_, _)
ChainBlocks(p, visited) ==
    IF p = 0 \/ p \in visited THEN visited
    ELSE ChainBlocks(link[p], visited \cup {p})

\* C11: when calls do not overlap and every block allocate returned has been
\* passed to deallocate, the free list is a chain of all the blocks it held
\* after new.
C11_Conservation ==
    (NoCallRunning /\ \A t \in Threads : th[t].owned = {}) =>
        /\ FreeChain(head, {})
        /\ ChainBlocks(head, {}) = Blocks

\* Every block is back on the list, in another order than after new.
C11_Witness ==
    /\ NoCallRunning
    /\ \A t \in Threads : th[t].owned = {}
    /\ head = 2 /\ link[2] = 1 /\ link[1] = 0

(***************************************************************************)
(*                        CLAIMS: MPSC QUEUE                               *)
(***************************************************************************)

\* C12: items of one producer are returned by try_dequeue in the order in
\* which that producer enqueued them.
C12_Original ==
    \A i \in 1 .. Len(delivered) : \A j \in 1 .. Len(delivered) :
        (i < j /\ delivered[i][1] = delivered[j][1]) =>
            delivered[i][2] < delivered[j][2]

\* The items whose try_enqueue has published them.
Enqueued ==
    {it \in Producers \X (1 .. tx.limit) : it[2] <= prods[it[1]].sent}

\* The items try_dequeue has returned.
Delivered ==
    {delivered[i] : i \in 1 .. Len(delivered)}

\* C13: try_dequeue returns only enqueued items and none of them twice, and
\* a call begun after the producers stopped ends (it returns an item or
\* Empty) and returns Empty only when every enqueued item has been returned.
C13_Original ==
    /\ Delivered \subseteq Enqueued
    /\ Cardinality(Delivered) = Len(delivered)
    /\ (rx.quiet /\ rx.pc = "idle" /\ rx.last = "Empty") =>
           Enqueued \subseteq Delivered
    /\ rx.quiet => rx.pc # "panicked"

\* C14: once the Tx and, after it, the Rx have been dropped, every segment
\* obtained from the allocator has been deallocated, and only once.
C14_Original ==
    (~tx.held /\ rx.pc = "dropped" /\ rx.quiet) =>
        \A s \in Segments : buffers[s].status \in {"pool", "freed"}

(***************************************************************************)
(*                        CLAIMS: EXTENSION ROLE                           *)
(***************************************************************************)

\* init has left the Init branch (extension.rs:75-89) without a hard error
\* of the serial port: it returned the Extension, or it returned an error
\* although every write answered Ok or WouldBlock.
InitBranchOver ==
    /\ ext.packet.data.kind = "Init"
    /\ \/ ext.pc = "initialised"
       \/ ext.pc = "failed" /\ calls.err = "WritingSerial" /\ wire.wr # "Other"

\* C15: init raises the ready line before it reads a frame, and on the
\* first Init{id} frame it accepts it writes exactly the 256 bytes of one
\* Acknowledge frame addressed to the Controller, flushes, and returns an
\* extension whose id is the id of that frame.
C15_Original ==
    /\ ~calls.readUnready
    /\ InitBranchOver =>
        /\ ext.pc = "initialised"
        /\ wire.out = Packet_serialize(
                        [protocol_version |-> VERSION, receiver |-> Controller,
                         data |-> [kind |-> "Acknowledge"]])
        /\ Len(wire.out) = FrameLen
        /\ wire.flushes = 1
        /\ ext.id = <<ext.packet.data.id>>

\* C16: during init an InitProbe frame received while selected is answered
\* with one InitProbeResponse{status: false, id: None} frame to the
\* Controller, each byte written successfully once, a byte repeated only
\* after WouldBlock.
C16_Original ==
    ext.pc = "probe" =>
        /\ wire.okAt <= 1
        /\ wire.out = SubSeq(ext.reply, 1, Len(wire.out))

AcceptedInRun ==
    /\ ext.pc \in {"run", "write", "returned"}
    /\ ext.packet.data.kind # "None"
    /\ \/ ext.packet.receiver = ID(ext.id[1])
       \/ ext.packet.receiver = Everyone /\ ext.selected

\* The reply the protocol asks for to the request ext.packet.
ReplyOwed ==
    LET to_controller(d) ==
            Packet_serialize([protocol_version |-> VERSION,
                              receiver |-> Controller, data |-> d])
        kind == ext.packet.data.kind
    IN  CASE kind = "InitProbe" ->
                to_controller([kind |-> "InitProbeResponse", status |-> TRUE,
                               id |-> <<ext.id[1]>>])
          [] kind = "Configure" -> to_controller([kind |-> "Acknowledge"])
          [] kind = "Metrics" ->
                to_controller([kind |-> "MetricsResponse",
                               metrics |-> [form |-> "Fixed",
                                            data |-> calls.metrics[1]]])
          [] kind = "ConfigureOptions" ->
                to_controller([kind |-> "ConfigureOptionsResponse",
                               options |-> [form |-> "Fixed",
                                            data |-> ext.config_options]])

\* C18: in run every accepted InitProbe, Configure, Metrics or
\* ConfigureOptions frame gets exactly one reply frame, addressed to the
\* Controller, before the next frame is read: the reply of the table, for
\* Configure after one call of the configure callback with the option
\* received, for Metrics with the list one call of the metrics callback
\* returned.
C18_OneReply ==
    /\ []((/\ AcceptedInRun
           /\ ext.packet.data.kind \in
                {"InitProbe", "Configure", "Metrics", "ConfigureOptions"})
            => (/\ ext.packet.data.kind = "Configure" =>
                        calls.configure = <<ext.packet.data.option>>
                /\ ext.packet.data.kind = "Metrics" => Len(calls.metrics) = 1
                /\ ext.pc = "write"
                        => (wire.sent = <<>> /\ ext.reply = ReplyOwed)
                /\ ext.pc = "run" => wire.sent = <<ReplyOwed>>
                /\ ext.pc # "returned"))
    /\ [][ext.pc = "write" =>
            \/ UNCHANGED <<ext, wire, calls>>
            \/ /\ ext'.pc = "run"
               /\ ext'.packet = ext.packet
               /\ wire'.sent = <<ext.reply>>
               /\ calls' = calls]_vars

\* A Metrics frame addressed to this extension was answered with the list
\* the callback returned, one data point long.
C18_Witness ==
    /\ AcceptedInRun
    /\ ext.pc = "run"
    /\ ext.packet.data.kind = "Metrics"
    /\ Len(calls.metrics) = 1 /\ Len(calls.metrics[1]) = 1
    /\ wire.sent = <<ReplyOwed>>
    /\ wire.sent[1][3] = 8 /\ wire.sent[1][4] = 1 /\ wire.sent[1][2] = ControllerByte

\* The step reads, in run, a frame that decodes and that is addressed
\* neither to the id of this extension nor to Everyone with the selection
\* line high.
ReadsForeignFrame ==
    /\ ext.pc \in {"initialised", "run"}
    /\ ext'.packet.data.kind # "None"
    /\ ext'.packet.receiver # ID(ext.id[1])
    /\ ~(ext'.packet.receiver = Everyone /\ ext'.selected)

ReadsRestart ==
    /\ ext.pc \in {"initialised", "run"}
    /\ ext'.packet.data.kind = "Restart"
    /\ \/ ext'.packet.receiver = ID(ext.id[1])
       \/ ext'.packet.receiver = Everyone /\ ext'.selected

\* C20: an accepted Restart frame makes run lower the ready line, send no
\* reply and return, and run returns on no other frame.
C20_RestartOnly ==
    /\ [][ReadsRestart =>
            /\ ext'.pc = "returned"
            /\ ext'.ready_pin = "low"
            /\ ext'.reply = <<>> /\ wire'.sent = <<>>]_vars
    /\ [][(ext.pc # "returned" /\ ext'.pc = "returned") => ReadsRestart]_vars
    /\ [](ext.pc = "returned" => (ext.ready_pin = "low" /\ wire.sent = <<>>))

\* run has returned on a Restart frame addressed to the id of the extension.
C20_Witness ==
    /\ ext.pc = "returned"
    /\ ext.packet.data.kind = "Restart"
    /\ ext.packet.receiver = ID(ext.id[1])
    /\ ext.ready_pin = "low"

\* The frame run last read was addressed to this extension and is of a
\* variant an extension does not serve.
AcceptedReserved ==
    /\ ext.id # <<>>
    /\ ext.pc \notin {"initialised", "init", "read", "probe", "ack", "failed"}
    /\ ext.packet.data.kind \in
            {"Init", "InitProbeResponse", "Acknowledge", "Error",
             "MetricsResponse", "ConfigureOptionsResponse"}
    /\ \/ ext.packet.receiver = ID(ext.id[1])
       \/ ext.packet.receiver = Everyone /\ ext.selected

\* C21: in run an accepted frame of variant Init, InitProbeResponse,
\* Acknowledge, Error, MetricsResponse or ConfigureOptionsResponse is
\* answered with one Error frame (discriminator 4, to the Controller) and
\* run goes on reading.
C21_Original ==
    AcceptedReserved =>
        /\ ext.pc \in {"write", "run"}
        /\ ext.pc = "run" =>
                /\ Len(wire.sent) = 1
                /\ wire.sent[1][2] = ControllerByte
                /\ wire.sent[1][3] = 4

(***************************************************************************)
(*                        CLAIMS: CONTROLLER ROLE                          *)
(***************************************************************************)

\* C22: Controller::init terminates for every number of slots and every
\* pattern of ready slots, and for a ready slot each byte of the InitProbe
\* frame is written successfully once and in order, a byte written again
\* only after WouldBlock.  A write that fails for good is not held against
\* the claim, here and in C23 and C24.
C22_Original ==
    /\ [](ctrl.pc = "probe" =>
            /\ ctrl.okAt <= 1
            /\ ctrl.out = SubSeq(Packet_serialize(init_probe), 1, Len(ctrl.out)))
    /\ <>(ctrl.pc = "done" \/ ctrl.wr = "Other")

\* C23: the slots are handled in ascending order; select(i) is called only
\* for a ready slot, before a probe byte for it is written, and exactly
\* once for every ready slot; a slot that is not ready is not selected.
C23_Original ==
    /\ [](/\ \A k \in 1 .. Len(ctrl.selects) :
                /\ ctrl.ready[ctrl.selects[k] + 1]
                /\ \A j \in 1 .. Len(ctrl.selects) :
                        j < k => ctrl.selects[j] < ctrl.selects[k]
          /\ ctrl.pc = "probe" =>
                ctrl.selects[Len(ctrl.selects)] = ctrl.idx
          /\ (ctrl.pc = "check" /\ ctrl.out # <<>>) =>
                ctrl.selects[Len(ctrl.selects)] < ctrl.idx)
    /\ <>(\/ ctrl.wr = "Other"
          \/ \A i \in 1 .. ctrl.n :
                ctrl.ready[i] =>
                    Cardinality({k \in 1 .. Len(ctrl.selects) :
                                    ctrl.selects[k] = i - 1}) = 1)

\* C24: Controller::init returns a table in which the entry of a slot that
\* was not ready is {id: i, initialized: false} and a ready slot has the
\* entry its response asks for.
C24_Original ==
    <>(\/ ctrl.wr = "Other"
       \/ /\ ctrl.pc = "done"
          /\ Len(ctrl.extensions) = ctrl.n
          /\ \A i \in 1 .. ctrl.n :
                ~ctrl.ready[i] =>
                    ctrl.extensions[i] = [id |-> i - 1, initialized |-> FALSE])

(***************************************************************************)
(*            CLAIMS: DMA SERIAL TRANSMITTER AND LOGGING SINK              *)
(***************************************************************************)

\* C25: the write future only moves forward, Initial to SendAndWaiting to
\* Done: a refused start leaves it Initial with its frame and wakes it, an
\* unfinished transfer leaves it SendAndWaiting; it answers Ready only in a
\* poll that found the transfer complete and put the buffer back, never
\* while the engine is busy; and it has started exactly one transfer once
\* it has left Initial, none before.
C25_ForwardOnly ==
    /\ [](/\ stx.fut = "Initial" => stx.starts = 0
          /\ stx.fut \in {"SendAndWaiting", "Done"} => stx.starts = 1
          /\ stx.fut = "SendAndWaiting" => stx.dma.state # "idle"
          /\ stx.last = "Ready" => stx.fut = "Done" /\ stx.dma.state # "busy"
                                   /\ stx.tx_buffer)
    /\ [][/\ stx.fut = "Initial" =>
                /\ stx'.fut \in {"Initial", "SendAndWaiting"}
                /\ stx'.fut = "Initial" /\ stx' # stx =>
                      /\ stx'.data = stx.data
                      /\ stx'.selfWake /\ stx'.last = "Pending"
          /\ stx.fut = "SendAndWaiting" =>
                /\ stx'.fut \in {"SendAndWaiting", "Done"}
                /\ stx'.fut = "Done" <=> stx.dma.state = "complete" /\ log'.pc = "loop"
                /\ stx'.fut = "SendAndWaiting" /\ stx'.last # stx.last =>
                      stx'.selfWake /\ stx'.last = "Pending"
          /\ stx'.last = "Ready" /\ stx.last # "Ready" =>
                /\ stx.fut = "SendAndWaiting" /\ stx.dma.state = "complete"
                /\ ~stx.tx_buffer /\ stx'.tx_buffer]_vars

C25_Witness ==
    /\ stx.fut = "Done" /\ stx.last = "Ready" /\ stx.starts = 1
    /\ stx.tx_buffer /\ log.sent = <<"Starting Logging">>

\* C26 (as stated): at every point exactly one of the idle slot, a future
\* that has not started and the engine holds the frame buffer, and after a
\* Ready the buffer is in the idle slot, so that no write() finds it gone.
C26_Original ==
    /\ stx.fut # "panicked"
    /\ (IF stx.tx_buffer THEN 1 ELSE 0)
         + (IF stx.fut = "Initial" THEN 1 ELSE 0)
         + (IF stx.dma.state # "idle" THEN 1 ELSE 0) = 1
    /\ stx.last = "Ready" => stx.tx_buffer

\* C27 (as stated): the backend keeps running, and every message it has
\* dequeued has its frame, in dequeue order after the start frame, either
\* transmitted, or in the engine, or in a future that is still to start.
C27_Original ==
    /\ log.pc # "panicked"
    /\ LET frames == log.sent
                     \o (IF stx.dma.state = "busy" THEN <<stx.dma.frame>> ELSE <<>>)
                     \o (IF stx.fut = "Initial" THEN <<stx.data>> ELSE <<>>)
       IN  log.pc = "loop" =>
             frames = <<"Starting Logging">>
                      \o [i \in 1 .. Len(log.taken) |-> FrameOf(log.taken[i])]

(***************************************************************************)
(*                         CLAIMS: PACKET CODEC                            *)
(***************************************************************************)

\* C28 (as stated): a packet of version 0 to Controller, Everyone or
\* ID(1..254), of any variant of the table, is serialized without a panic
\* to a frame of 256 bytes with the version, the receiver and the variant
\* id in its first three bytes, and that frame is deserialized to a packet
\* of the same version, receiver and payload (for a list: the same number
\* of items with the same encoding).
C28_Original ==
    LET p == codec.packet
        q == codec.result.packet
        variant == CASE p.data.kind = "InitProbe" -> 0
                     [] p.data.kind = "InitProbeResponse" -> 1
                     [] p.data.kind = "Init" -> 2
                     [] p.data.kind = "Acknowledge" -> 3
                     [] p.data.kind = "Error" -> 4
                     [] p.data.kind = "Restart" -> 5
                     [] p.data.kind = "Configure" -> 6
                     [] p.data.kind = "Metrics" -> 7
                     [] p.data.kind = "MetricsResponse" -> 8
                     [] p.data.kind = "ConfigureOptions" -> 9
                     [] p.data.kind = "ConfigureOptionsResponse" -> 10
        same(d, e) ==
            IF d.kind = "MetricsResponse"
            THEN /\ e.kind = d.kind
                 /\ e.metrics.length = Len(d.metrics.data)
                 /\ PacketData_serialize(e) = PacketData_serialize(d)
            ELSE IF d.kind = "ConfigureOptionsResponse"
            THEN /\ e.kind = d.kind
                 /\ e.options.length = Len(d.options.data)
                 /\ PacketData_serialize(e) = PacketData_serialize(d)
            ELSE e = d
    IN  p # NoPacket =>
          /\ codec.pc # "panicked"
          /\ codec.pc \in {"frame", "done"} =>
                /\ Len(codec.frame) = FrameLen
                /\ codec.frame[1] = p.protocol_version
                /\ codec.frame[2] = ReceiverID_into(p.receiver)
                /\ codec.frame[3] = variant
          /\ codec.pc = "done" =>
                /\ codec.result.res = "Ok"
                /\ q.protocol_version = p.protocol_version
                /\ q.receiver = p.receiver
                /\ same(p.data, q.data)

\* C29 (as stated): deserializing a frame of 256 bytes never panics, and a
\* discriminator outside 0..10 gives the error UnknownID of it.
C29_Original ==
    codec.packet = NoPacket =>
      /\ codec.pc # "panicked"
      /\ codec.pc = "done" =>
            /\ codec.result.res \in {"Ok", "Err"}
            /\ codec.frame[3] \notin 0 .. 10 =>
                  codec.result = [res |-> "Err",
                                  err |-> <<"UnknownID", codec.frame[3]>>]

(***************************************************************************)
(*                  CLAIMS: BLOCK ALLOCATOR, EXHAUSTION                    *)
(***************************************************************************)

\* C30: over an arena of k >= 1 blocks, while nothing is deallocated, every
\* block allocate returns is the block at head, lies in the arena and has
\* not been returned before; head is null exactly when all k blocks have
\* been returned, so no allocation fails before that, and an allocation
\* that loads head after that fails.
C30_Exhaustion ==
    /\ [](head = 0 <=> \A b \in Blocks : Owned(b))
    /\ [][\A t \in Threads :
            /\ th'[t].owned # th[t].owned =>
                  /\ th'[t].owned = th[t].owned \cup {head}
                  /\ head \in Blocks /\ ~Owned(head)
            /\ th'[t].pc = "panicked" /\ th[t].pc # "panicked" =>
                  \A b \in Blocks : Owned(b)
            /\ (th[t].pc = "a_load" /\ th'[t].pc # "a_load"
                  /\ \A b \in Blocks : Owned(b)) =>
                  th'[t].pc = "panicked"]_vars

\* All blocks of the largest arena returned, to more than one thread, and
\* one more allocation failed.
C30_Witness ==
    /\ Cardinality(Blocks) = MaxArena
    /\ \A b \in Blocks : Owned(b)
    /\ \E t \in Threads : th[t].owned # {} /\ th[t].owned # Blocks
    /\ \E t \in Threads : th[t].pc = "panicked"

(***************************************************************************)
(*                 CLAIMS: EXECUTOR, THE FINAL ASSERTION                   *)
(***************************************************************************)

\* C31: run ends in no other way than by its assertion: the assertion at
\* the end of a pass fails exactly when every task is done at that moment,
\* so it has failed only when every task is done, and it lets the loop go
\* on while a task is not done, whether that task is woken or not; done
\* flags change only in a poll, so the pass it fails after is the first one
\* that ends with every task done.
C31_AssertWhenAllDone ==
    /\ [](/\ run_pc \in {"check", "clear", "call", "polling", "assert",
                         "panicked"}
          /\ run_pc = "panicked" => \A t \in Tasks : done[t])
    /\ [][/\ (run_pc = "assert" /\ run_pc' # "assert") =>
                IF \A t \in Tasks : done[t]
                THEN run_pc' = "panicked"
                ELSE run_pc' = "check" /\ id' = 0
          /\ run_pc = "panicked" => run_pc' = "panicked"
          /\ (\E t \in Tasks : done'[t] # done[t]) => run_pc = "polling"]_vars

\* The assertion has failed after a pass that was not the first, and a
\* task was passed over unwoken before.
C31_Witness ==
    /\ run_pc = "panicked"
    /\ \A t \in Tasks : done[t]
    /\ \E t \in Tasks : polls[t] >= 2

(***************************************************************************)
(*                CLAIMS: TIMER WHEEL, TICK AS AN INTERRUPT                *)
(***************************************************************************)

\* C32 (as stated): tick never panics, and the slot a non-empty bucket
\* names is Armed and holds a waker.
C32_Original ==
    /\ wheel_pc # "panicked"
    /\ \A b \in DOMAIN wheel_slots :
          wheel_slots[b] >= 0 =>
              /\ wakers[wheel_slots[b]].state = Armed
              /\ wakers[wheel_slots[b]].waker # 0

\* C33 (as stated): no waker of a registered timer is woken, and no sleep
\* future reports Ready, before as many ticks as were asked for have been
\* called since the registration.
C33_Original ==
    \A k \in Clients :
        /\ (cl[k].res = "Registered" /\ cl[k].woken >= 1) =>
                cl[k].elapsed >= cl[k].time
        /\ (cl[k].res = "Registered" /\ cl[k].lastPoll = "Ready") =>
                cl[k].elapsed >= cl[k].time

\* Slot i changes state from a to b in this step.
SlotStep(i, a, b) ==
    /\ wakers[i].state = a
    /\ wakers'[i].state = b

\* C37 (as the code has it): a slot's state changes only in these ways:
\* add_waker takes a Free slot to Reserving and then to Armed; the tick
\* that fires the slot takes it from Armed back to Reserving, where it
\* stays with its fired flag set; the drop of the handle takes the slot to
\* Free, from Armed or from Reserving.
C37_SlotCycle ==
    [][\A i \in DOMAIN wakers :
          wakers'[i].state # wakers[i].state =>
              \/ /\ SlotStep(i, Free, Reserving)
                 /\ \E k \in Clients : /\ cl[k].pc = "idle"
                                       /\ cl'[k].pc = "fired"
                                       /\ cl'[k].slot = i
              \/ /\ SlotStep(i, Reserving, Armed)
                 /\ \E k \in Clients : cl[k].pc = "arm" /\ cl[k].slot = i
              \/ /\ SlotStep(i, Armed, Reserving)
                 /\ current' # current
                 /\ wheel_slots[current'] = i
                 /\ wakers'[i].fired
              \/ /\ \/ SlotStep(i, Armed, Free)
                    \/ SlotStep(i, Reserving, Free)
                 /\ \E k \in Clients : /\ cl[k].slot = i
                                       /\ cl[k].res = "Registered"
                                       /\ cl'[k].kind = "dropped"]_vars

\* A slot that a tick fired waits in Reserving for the drop of its handle,
\* after another handle was dropped.
C37_Witness ==
    /\ \E k \in Clients :
          /\ cl[k].res = "Registered" /\ cl[k].woken >= 1
          /\ wakers[cl[k].slot].state = Reserving
          /\ wakers[cl[k].slot].fired
    /\ \E j \in Clients : cl[j].kind = "dropped"

\* C37: a slot's state changes only along Free -> Reserving -> Armed -> Free.
C37_Original ==
    [][\A i \in DOMAIN wakers :
          wakers'[i].state # wakers[i].state =>
              \/ SlotStep(i, Free, Reserving)
              \/ SlotStep(i, Reserving, Armed)
              \/ SlotStep(i, Armed, Free)]_vars

\* C38: the tick that wakes a sleeper has set the fired flag of its slot in
\* the same step, and from then on every poll of a sleep future that holds
\* its handle and was woken by the wheel returns Ready, wherever tick came
\* in between the steps of add_ms and the polls.
C38_FlagBeforeWake ==
    /\ [](\A k \in Clients :
             (/\ cl[k].kind = "sleep" /\ cl[k].res = "Registered"
              /\ cl[k].woken >= 1)
                 => /\ wakers[cl[k].slot].fired
                    /\ PollAnswer(cl[k]) = "Ready")
    /\ [][\A k \in Clients :
             (current' # current /\ cl'[k].woken > cl[k].woken)
                 => /\ wheel_slots[current'] >= 0
                    /\ wakers[wheel_slots[current']].waker = k
                    /\ wakers'[wheel_slots[current']].fired
                    /\ cl[k].res = "Registered" =>
                           wheel_slots[current'] = cl[k].slot]_vars
    /\ [][\A k \in Clients :
             (/\ cl[k].kind = "sleep" /\ cl[k].res = "Registered"
              /\ cl[k].woken >= 1 /\ cl'[k].kind = "sleep")
                 => cl'[k].lastPoll \in {cl[k].lastPoll, "Ready"}]_vars

\* A sleeper registered while ticks came in between the steps of add_ms was
\* woken by the wheel and its next poll returned Ready.
C38_Witness ==
    \E k \in Clients :
        /\ cl[k].kind = "sleep" /\ cl[k].res = "Registered"
        /\ cl[k].woken = 1 /\ cl[k].lastPoll = "Ready"
        /\ cl[k].cur # 0
        /\ wakers[cl[k].slot].fired

\* C39: with tick between any two atomic steps of add_ms, every bucket that
\* is not empty holds the index of an Armed slot, and the waker of a
\* Registered handle that is kept is woken once, and no later than one turn
\* of the wheel after add_ms returned.
C39_Original ==
    /\ \A b \in DOMAIN wheel_slots :
          wheel_slots[b] >= 0 => wakers[wheel_slots[b]].state = Armed
    /\ \A k \in Clients :
          cl[k].res = "Registered" =>
              /\ cl[k].woken <= 1
              /\ cl[k].woken = 0 => cl[k].elapsed <= Width

(***************************************************************************)
(*              CLAIMS: MPSC QUEUE, SEGMENTS AND REF COUNTS                *)
(***************************************************************************)

\* Every entry of segment s is Consumed.
AllConsumed(s) ==
    \A i \in DOMAIN buffers[s].entries :
        buffers[s].entries[i].state = EntryConsumed

\* C34: try_dequeue never panics: whenever it finds a segment with a
\* successor and every entry Consumed, the segment's ref count is 0.
C34_Original ==
    /\ rx.pc # "panicked"
    /\ (rx.pc = "r_check" /\ AllConsumed(rx.buf_ptr)) =>
           buffers[rx.buf_ptr].ref_count = 0

\* C35: no producer touches a segment after it was deallocated: every
\* segment pointer a try_enqueue in progress holds is to live memory.
C35_Original ==
    \A p \in Producers :
        /\ prods[p].pc # "undefined"
        /\ prods[p].tail_ptr # 0 => Live(prods[p].tail_ptr)
        /\ prods[p].current_next # 0 => Live(prods[p].current_next)

\* C36: no ref count is negative, and while the Tx is alive and no
\* try_enqueue is in progress the tail segment has ref count 1 and every
\* other segment in use has ref count 0.
C36_Original ==
    /\ \A s \in Segments : buffers[s].ref_count >= 0
    /\ (tx.held /\ \A p \in Producers : prods[p].pc = "idle") =>
           \A s \in Segments :
               Live(s) => buffers[s].ref_count = IF s = tx.tail THEN 1 ELSE 0

\* C40: a segment obtained from the allocator and not given back is the
\* first segment, or the successor of a segment, or still in the hands of
\* the producer that is about to link it.
C40_Original ==
    \A s \in Segments :
        Live(s) =>
            \/ s = 1
            \/ \E r \in Segments : buffers[r].next = s
            \/ \E p \in Producers :
                  prods[p].pc = "t_casnext" /\ prods[p].new_buffer = s


============================================================================
